---- MODULE Spec2Model ----
(***************************************************************************)
(* Model of the chess rules engine of chess-board/types.ts: the board,     *)
(* per-piece move generation, make/undo of moves, legality filtering by    *)
(* simulate-and-rollback and the classification of the resulting position. *)
(*                                                                         *)
(* Objects are modelled by value.  A piece is a record with an identity;   *)
(* the mutable properties the code keeps on piece objects (doubleStep,     *)
(* canCastleKing, canCastleQueen) are the sets of pieces on which the      *)
(* property is true.  A tile is named by its square.  A board is a record, *)
(* and every method is an operator from a board to the board it leaves     *)
(* behind (and its result).  A TypeError thrown by a dereference of        *)
(* undefined is the field thrown: every step after it is skipped, and the  *)
(* board is left as the code had mutated it so far.                        *)
(***************************************************************************)
EXTENDS Integers, Sequences, FiniteSets, TLC

\* ------------------------------------------------------------------ Square

BoardSize == 8

ChessFiles == <<"a", "b", "c", "d", "e", "f", "g", "h">>

files == [a |-> 0, b |-> 1, c |-> 2, d |-> 3, e |-> 4, f |-> 5, g |-> 6, h |-> 7]

\* new Square(): file and rank undefined
InvalidSquare == [file |-> "undefined", rank |-> 0]

isValid(square) == square.file # "undefined" /\ square.rank # 0

simplify(square) ==
  IF ~isValid(square) THEN [file |-> -1, rank |-> -1]
  ELSE [file |-> files[square.file], rank |-> square.rank - 1]

chessify(file, rank) ==
  IF file < 0 \/ file >= BoardSize \/ rank < 0 \/ rank >= BoardSize
  THEN InvalidSquare
  ELSE [file |-> ChessFiles[file + 1], rank |-> rank + 1]

\* add as it would be with the two offsets exchanged
addExchanged(square, fileAdd, rankAdd) ==
  LET simple == simplify(square)
  IN chessify(simple.file + rankAdd, simple.rank + fileAdd)

add(square, fileAdd, rankAdd) ==
  LET simple == simplify(square)
  IN chessify(simple.file + fileAdd, simple.rank + rankAdd)

Sq(file, rank) == [file |-> file, rank |-> rank]

Squares == {chessify(f, r) : f \in 0..(BoardSize - 1), r \in 0..(BoardSize - 1)}

\* ------------------------------------------------------------------- Piece

Colors == {"white", "black"}

\* an empty tile: tile.piece is undefined
undefinedPiece == [kind |-> "undefined", pieceColor |-> "undefined", id |-> 0]

Pc(kind, color, id) == [kind |-> kind, pieceColor |-> color, id |-> id]

other(turn) == IF turn = "white" THEN "black" ELSE "white"

\* -------------------------------------------------------------------- Board

\* this.tiles[simple.rank][simple.file], for a valid square
pieceAt(b, square) ==
  LET simple == simplify(square) IN b.tiles[simple.rank + 1][simple.file + 1]

setPiece(b, square, piece) ==
  LET simple == simplify(square)
  IN [b EXCEPT !.tiles[simple.rank + 1][simple.file + 1] = piece]

Throw(b) == [b EXCEPT !.thrown = TRUE]

\* getTile(square): undefined iff the square is invalid; a tile is named by its square
getTile(b, square) == IF ~isValid(square) THEN InvalidSquare ELSE square

kingTile(b, color) == IF color = "white" THEN b.whiteKingTile ELSE b.blackKingTile

getKing(b, color) == pieceAt(b, kingTile(b, color))

changeTurn(b) == IF b.thrown THEN b ELSE [b EXCEPT !.turn = other(b.turn)]

\* --------------------------------------------------------------------- Move

\* cancelsCastlesKingside as it would be if only a king move cancelled the right
cancelsCastlesKingsideKingOnly(movePiece) == movePiece.kind = "King"

cancelsCastlesKingside(movePiece) == movePiece.kind \in {"King", "Rook"}

cancelsCastlesQueenside(movePiece) == movePiece.kind \in {"King", "Rook"}

\* --------------------------------------------------------------- makeMove

\* the first step of makeMove as it would be if a pawn arriving on the last rank of its
\* colour were replaced by a queen
movePieceStepPromoting(b, move) ==
  IF b.thrown THEN b
  ELSE IF ~isValid(getTile(b, move.targetSquare)) THEN Throw(b)
  ELSE LET promoted ==
             IF move.movePiece.kind = "Pawn"
                /\ move.targetSquare.rank
                     = (IF move.movePiece.pieceColor = "white" THEN BoardSize ELSE 1)
             THEN [move.movePiece EXCEPT !.kind = "Queen"]
             ELSE move.movePiece
           b1 == setPiece(b, move.targetSquare, promoted)
       IN IF ~isValid(getTile(b1, move.startingSquare)) THEN Throw(b1)
          ELSE setPiece(b1, move.startingSquare, undefinedPiece)

\* targetTile.piece = move.movePiece; startingTile.piece = undefined
movePieceStep(b, move) ==
  IF b.thrown THEN b
  ELSE IF ~isValid(getTile(b, move.targetSquare)) THEN Throw(b)
  ELSE LET b1 == setPiece(b, move.targetSquare, move.movePiece)
       IN IF ~isValid(getTile(b1, move.startingSquare)) THEN Throw(b1)
          ELSE setPiece(b1, move.startingSquare, undefinedPiece)

\* if (move.isDoubleStep) pawn.doubleStep = true
setDoubleStep(b, move) ==
  IF b.thrown \/ ~move.isDoubleStep THEN b
  ELSE [b EXCEPT !.doubleStep = @ \cup {move.movePiece}]

\* the pawn of the move on top of the history loses its doubleStep
clearLastDoubleStep(b) ==
  IF b.thrown \/ Len(b.history) = 0 THEN b
  ELSE LET lastMove == b.history[Len(b.history)]
       IN IF lastMove.isDoubleStep
          THEN [b EXCEPT !.doubleStep = @ \ {lastMove.movePiece}]
          ELSE b

\* the en passant capture as it would be if it emptied the square the move goes to
removeEnPassantPawnOnTarget(b, move) ==
  IF b.thrown \/ ~move.isEnPassant THEN b
  ELSE setPiece(b, move.targetSquare, undefinedPiece)

\* en passant: the captured pawn stands behind the target square
removeEnPassantPawn(b, move) ==
  IF b.thrown \/ ~move.isEnPassant THEN b
  ELSE LET capturedPawnSquare ==
             IF b.turn = "white" THEN add(move.targetSquare, 0, -1)
             ELSE add(move.targetSquare, 0, 1)
       IN IF ~isValid(getTile(b, capturedPawnSquare)) THEN Throw(b)
          ELSE setPiece(b, capturedPawnSquare, undefinedPiece)

\* trackKingTile as it would be if it retargeted the king tile of the other colour
trackKingTileOfOther(b, move) ==
  IF b.thrown \/ move.movePiece.kind # "King" THEN b
  ELSE IF b.turn = "white" THEN [b EXCEPT !.blackKingTile = move.targetSquare]
  ELSE [b EXCEPT !.whiteKingTile = move.targetSquare]

\* a king move retargets the king tile of the colour whose turn it is
trackKingTile(b, move) ==
  IF b.thrown \/ move.movePiece.kind # "King" THEN b
  ELSE IF b.turn = "white" THEN [b EXCEPT !.whiteKingTile = move.targetSquare]
  ELSE [b EXCEPT !.blackKingTile = move.targetSquare]

\* getKing(color).canCastleQueen = value (a TypeError when the king tile is empty)
setCanCastleQueen(b, color, value) ==
  IF b.thrown THEN b
  ELSE LET king == getKing(b, color)
       IN IF king = undefinedPiece THEN Throw(b)
          ELSE IF value THEN [b EXCEPT !.canCastleQueen = @ \cup {king}]
          ELSE [b EXCEPT !.canCastleQueen = @ \ {king}]

setCanCastleKing(b, color, value) ==
  IF b.thrown THEN b
  ELSE LET king == getKing(b, color)
       IN IF king = undefinedPiece THEN Throw(b)
          ELSE IF value THEN [b EXCEPT !.canCastleKing = @ \cup {king}]
          ELSE [b EXCEPT !.canCastleKing = @ \ {king}]

\* cancelCastles as it would be if it cleared the flags of the king of the other colour
cancelCastlesOfOther(b, move) ==
  LET b1 == IF move.cancelQueensideCastles
            THEN setCanCastleQueen(b, other(b.turn), FALSE) ELSE b
  IN IF ~b1.thrown /\ move.cancelKingsideCastles
     THEN setCanCastleKing(b1, other(b1.turn), FALSE)
     ELSE b1

cancelCastles(b, move) ==
  LET b1 == IF move.cancelQueensideCastles THEN setCanCastleQueen(b, b.turn, FALSE) ELSE b
  IN IF ~b1.thrown /\ move.cancelKingsideCastles
     THEN setCanCastleKing(b1, b1.turn, FALSE)
     ELSE b1

\* the corner of the rook as it would be if every castling move were taken for kingside
rookStartSquareKingSide(move) == add(move.startingSquare, 3, 0)

\* the two tiles of the rook of a castling move: its corner and its place next to the king
rookStartSquare(move) ==
  IF move.targetSquare.file = "c" THEN add(move.startingSquare, -4, 0)
  ELSE add(move.startingSquare, 3, 0)

rookEndSquare(move) ==
  IF move.targetSquare.file = "c" THEN add(move.startingSquare, -1, 0)
  ELSE add(move.startingSquare, 1, 0)

\* rookEndTile.piece = rookStartTile.piece; rookStartTile.piece = undefined
castleRook(b, move) ==
  IF b.thrown \/ ~move.isCastles THEN b
  ELSE LET rookStartTile == getTile(b, rookStartSquare(move))
           rookEndTile == getTile(b, rookEndSquare(move))
       IN IF ~isValid(rookStartTile) \/ ~isValid(rookEndTile) THEN Throw(b)
          ELSE setPiece(setPiece(b, rookEndTile, pieceAt(b, rookStartTile)),
                        rookStartTile, undefinedPiece)

\* this.history.push(move); a board that carries the ghost field peak records in it the
\* greatest length its history has had
pushHistory(b, move) ==
  IF b.thrown THEN b
  ELSE IF "peak" \in DOMAIN b
  THEN [b EXCEPT !.history = Append(@, move),
                 !.peak = IF Len(b.history) + 1 > @ THEN Len(b.history) + 1 ELSE @]
  ELSE [b EXCEPT !.history = Append(@, move)]

makeMove(b, move) ==
  LET b1 == movePieceStep(b, move)
      b2 == setDoubleStep(b1, move)
      b3 == clearLastDoubleStep(b2)
      b4 == removeEnPassantPawn(b3, move)
      b5 == trackKingTile(b4, move)
      b6 == cancelCastles(b5, move)
      b7 == castleRook(b6, move)
      b8 == changeTurn(b7)
  IN pushHistory(b8, move)

\* --------------------------------------------------------------- undoMove

\* the en passant branch of undoMove as it would be if it put the captured pawn back on
\* the target square
undoEnPassantOnTarget(b, move) ==
  setPiece(setPiece(b, move.startingSquare, move.movePiece),
           move.targetSquare, move.capturePiece)

\* en passant branch: mover back, target emptied, captured pawn back behind the target
undoEnPassant(b, move) ==
  LET b1 == setPiece(setPiece(b, move.startingSquare, move.movePiece),
                     move.targetSquare, undefinedPiece)
      capturedPawnSquare ==
        IF b.turn = "white" THEN add(move.targetSquare, 0, 1)
        ELSE add(move.targetSquare, 0, -1)
  IN IF ~isValid(getTile(b1, capturedPawnSquare)) THEN Throw(b1)
     ELSE setPiece(b1, capturedPawnSquare, move.capturePiece)

\* startingTile.piece = move.movePiece; targetTile.piece = move.capturePiece
undoPieces(b, move) ==
  setPiece(setPiece(b, move.startingSquare, move.movePiece),
           move.targetSquare, move.capturePiece)

untrackKingTile(b, move) ==
  IF b.thrown \/ move.movePiece.kind # "King" THEN b
  ELSE IF b.turn = "white" THEN [b EXCEPT !.blackKingTile = move.startingSquare]
  ELSE [b EXCEPT !.whiteKingTile = move.startingSquare]

\* the flags are set on the king of the colour whose turn it is when undoMove runs
restoreCastles(b, move) ==
  LET b1 == IF move.cancelQueensideCastles THEN setCanCastleQueen(b, b.turn, TRUE) ELSE b
  IN IF ~b1.thrown /\ move.cancelKingsideCastles
     THEN setCanCastleKing(b1, b1.turn, TRUE)
     ELSE b1

\* the castling branch of undoMove as it would be if it left the rook where it stands
uncastleRookLeft(b, move) == b

\* rookStartTile.piece = rookEndTile.piece; rookEndTile.piece = undefined
uncastleRook(b, move) ==
  IF b.thrown \/ ~move.isCastles THEN b
  ELSE LET rookStartTile == getTile(b, rookStartSquare(move))
           rookEndTile == getTile(b, rookEndSquare(move))
       IN IF ~isValid(rookStartTile) \/ ~isValid(rookEndTile) THEN Throw(b)
          ELSE setPiece(setPiece(b, rookStartTile, pieceAt(b, rookEndTile)),
                        rookEndTile, undefinedPiece)

unsetDoubleStep(b, move) ==
  IF b.thrown \/ ~move.isDoubleStep THEN b
  ELSE [b EXCEPT !.doubleStep = @ \ {move.movePiece}]

\* the pawn of the move now on top of the history gets its doubleStep back
restoreLastDoubleStep(b) ==
  IF b.thrown \/ Len(b.history) = 0 THEN b
  ELSE LET lastMove == b.history[Len(b.history)]
       IN IF lastMove.isDoubleStep
          THEN [b EXCEPT !.doubleStep = @ \cup {lastMove.movePiece}]
          ELSE b

\* undoMove as it would be without its closing this.changeTurn()
undoMoveKeepsTurn(b, move) ==
  IF b.thrown THEN b
  ELSE LET b1 == IF move.isEnPassant THEN undoEnPassant(b, move)
                 ELSE uncastleRook(
                        restoreCastles(untrackKingTile(undoPieces(b, move), move), move),
                        move)
           b2 == unsetDoubleStep(b1, move)
       IN restoreLastDoubleStep(b2)

undoMove(b, move) ==
  IF b.thrown THEN b
  ELSE LET b1 == IF move.isEnPassant THEN undoEnPassant(b, move)
                 ELSE uncastleRook(
                        restoreCastles(untrackKingTile(undoPieces(b, move), move), move),
                        move)
           b2 == unsetDoubleStep(b1, move)
           b3 == restoreLastDoubleStep(b2)
       IN changeTurn(b3)

\* undoLastMove as it would be without its return on an empty history: undoMove of
\* undefined reads a property of undefined
undoLastMoveUnguarded(b) ==
  IF b.thrown THEN b
  ELSE IF Len(b.history) = 0 THEN Throw(b)
  ELSE undoMove([b EXCEPT !.history = SubSeq(@, 1, Len(@) - 1)], b.history[Len(b.history)])

undoLastMove(b) ==
  IF b.thrown \/ Len(b.history) = 0 THEN b
  ELSE LET lastMove == b.history[Len(b.history)]
       IN undoMove([b EXCEPT !.history = SubSeq(@, 1, Len(@) - 1)], lastMove)

\* -------------------------------------------------------- move generation

\* piece.getSimpleName(): the letter of the kind, upper case for white
getSimpleName(piece) ==
  CASE piece.kind = "Pawn" -> IF piece.pieceColor = "white" THEN "P" ELSE "p"
    [] piece.kind = "Rook" -> IF piece.pieceColor = "white" THEN "R" ELSE "r"
    [] piece.kind = "Knight" -> IF piece.pieceColor = "white" THEN "N" ELSE "n"
    [] piece.kind = "Bishop" -> IF piece.pieceColor = "white" THEN "B" ELSE "b"
    [] piece.kind = "Queen" -> IF piece.pieceColor = "white" THEN "Q" ELSE "q"
    [] piece.kind = "King" -> IF piece.pieceColor = "white" THEN "K" ELSE "k"

\* Square.toString(): `${this.file}${this.rank}`
squareToString(square) == square.file \o ToString(square.rank)

\* Move.toString()
toString(move) ==
  IF move.isCastles
  THEN IF move.targetSquare.file = "a" THEN "O-O-O" ELSE "O-O"
  ELSE getSimpleName(move.movePiece)
         \o (IF move.isCapture THEN "x" ELSE "")
         \o squareToString(move.targetSquare)
         \o (IF move.checkType = "check" THEN "+"
             ELSE IF move.checkType = "checkmate" THEN "#"
             ELSE "")

RECURSIVE calculateCheckType(_, _)
RECURSIVE getLegalMoves(_, _, _, _, _)

\* this.checkType = board.calculateCheckType(this); r is [b, checkType]
withCheckType(this, r) == [b |-> r.b, move |-> [this EXCEPT !.checkType = r.checkType]]

\* new Move(...): the constructor; with checkCalculation it runs a trial on the board
newMove(b, checkCalculation, castleCalculation, startingSquare, targetSquare, movePiece, isCapture, isEnPassant, isCastles, isDoubleStep, capturePiece) ==
  LET this == [startingSquare |-> startingSquare,
               targetSquare |-> targetSquare,
               movePiece |-> movePiece,
               isCapture |-> isCapture,
               isEnPassant |-> isEnPassant,
               isCastles |-> isCastles,
               isDoubleStep |-> isDoubleStep,
               cancelQueensideCastles |->
                 castleCalculation /\ cancelsCastlesQueenside(movePiece),
               cancelKingsideCastles |->
                 castleCalculation /\ cancelsCastlesKingside(movePiece),
               capturePiece |-> capturePiece,
               checkType |-> "none"]
  IN IF checkCalculation
     THEN withCheckType(this, calculateCheckType(b, this))
     ELSE [b |-> b, move |-> this]

\* What one check of a generator decides, before any Move is constructed: "none"
\* (return without a move), "throw" (a tile that is undefined was dereferenced) or
\* "move", with the arguments the Move is constructed with.
none == [tag |-> "none"]

throw == [tag |-> "throw"]

candidate(targetSquare, isCapture, isEnPassant, isCastles, isDoubleStep, capturePiece) ==
  [tag |-> "move", targetSquare |-> targetSquare, isCapture |-> isCapture,
   isEnPassant |-> isEnPassant, isCastles |-> isCastles,
   isDoubleStep |-> isDoubleStep, capturePiece |-> capturePiece]

\* Piece.checkAndAdd as it would be if a square off the board counted as an empty tile
checkAndAddOffBoard(b, this, startingSquare, targetSquare) ==
  IF ~isValid(targetSquare)
  THEN candidate(targetSquare, FALSE, FALSE, FALSE, FALSE, undefinedPiece)
  ELSE LET piece == pieceAt(b, targetSquare)
       IN IF piece = undefinedPiece
          THEN candidate(targetSquare, FALSE, FALSE, FALSE, FALSE, undefinedPiece)
          ELSE IF piece.pieceColor = this.pieceColor THEN none
          ELSE candidate(targetSquare, TRUE, FALSE, FALSE, FALSE, piece)

\* Piece.checkAndAdd
checkAndAdd(b, this, startingSquare, targetSquare) ==
  IF ~isValid(targetSquare) THEN none
  ELSE LET piece == pieceAt(b, targetSquare)
       IN IF piece = undefinedPiece
          THEN candidate(targetSquare, FALSE, FALSE, FALSE, FALSE, undefinedPiece)
          ELSE IF piece.pieceColor = this.pieceColor THEN none
          ELSE candidate(targetSquare, TRUE, FALSE, FALSE, FALSE, piece)

abs(n) == IF n < 0 THEN -n ELSE n

\* Pawn.checkAndAdd as it would be if Pawn did not override Piece.checkAndAdd
pawnCheckAndAddAsPiece(b, this, startingSquare, targetSquare) ==
  checkAndAdd(b, this, startingSquare, targetSquare)

\* Pawn.checkAndAdd: a push, onto an empty square only
pawnCheckAndAdd(b, this, startingSquare, targetSquare) ==
  IF ~isValid(targetSquare) THEN none
  ELSE IF pieceAt(b, targetSquare) = undefinedPiece
       THEN candidate(targetSquare, FALSE, FALSE, FALSE,
                      abs(targetSquare.rank - startingSquare.rank) > 1, undefinedPiece)
       ELSE none

\* the rank a pawn takes en passant from
enPassantRank(color) == IF color = "white" THEN 5 ELSE 4

\* the test on the piece next to the pawn: white returns unless it is a Pawn, black
\* returns if it is one
enPassantVictimOk(this, checkPiece) ==
  IF this.pieceColor = "white"
  THEN checkPiece # undefinedPiece /\ checkPiece.kind = "Pawn"
  ELSE checkPiece # undefinedPiece /\ checkPiece.kind # "Pawn"

\* Pawn.checkAndAddDiagonal
checkAndAddDiagonal(b, this, startingSquare, targetSquare) ==
  IF ~isValid(targetSquare) THEN none
  ELSE LET piece == pieceAt(b, targetSquare)
       IN IF piece # undefinedPiece
          THEN IF piece.pieceColor = this.pieceColor THEN none
               ELSE candidate(targetSquare, TRUE, FALSE, FALSE, FALSE, piece)
          ELSE IF startingSquare.rank # enPassantRank(this.pieceColor) THEN none
          ELSE LET checkSquare ==
                     IF this.pieceColor = "white" THEN add(targetSquare, 0, -1)
                     ELSE add(targetSquare, 0, 1)
               IN IF ~isValid(getTile(b, checkSquare)) THEN throw
                  ELSE LET pawn == pieceAt(b, checkSquare)
                       IN IF ~enPassantVictimOk(this, pawn) THEN none
                          ELSE IF pawn \in b.doubleStep
                          THEN candidate(targetSquare, TRUE, TRUE, FALSE, FALSE, pawn)
                          ELSE none

\* the castling probes: "clear", "blocked", or "undefined" when a probed tile is off the board
RECURSIVE probeCastle(_, _, _, _, _)
probeCastle(b, startingSquare, file, step, last) ==
  LET tile == getTile(b, add(startingSquare, file, 0))
  IN IF ~isValid(tile) THEN "undefined"
     ELSE IF pieceAt(b, tile) # undefinedPiece THEN "blocked"
     ELSE IF file = last THEN "clear"
     ELSE probeCastle(b, startingSquare, file + step, step, last)

KingSideProbeLast == 2

QueenSideProbeLast == -3

\* King.checkAndAddKingSide
checkAndAddKingSide(b, this, startingSquare) ==
  IF this \notin b.canCastleKing THEN none
  ELSE LET found == probeCastle(b, startingSquare, 1, 1, KingSideProbeLast)
       IN IF found = "undefined" THEN throw
          ELSE IF found = "blocked" THEN none
          ELSE candidate(add(startingSquare, 2, 0), FALSE, FALSE, TRUE, FALSE, undefinedPiece)

\* King.checkAndAddQueenSide as it would be if it refused to pass over a file on which
\* an enemy rook or queen stands
checkAndAddQueenSideGuarded(b, this, startingSquare) ==
  IF this \notin b.canCastleQueen THEN none
  ELSE LET found == probeCastle(b, startingSquare, -1, -1, QueenSideProbeLast)
       IN IF found = "undefined" THEN throw
          ELSE IF found = "blocked" THEN none
          ELSE IF \E rank \in 1..BoardSize :
                    LET piece == pieceAt(b, Sq(add(startingSquare, -1, 0).file, rank))
                    IN piece.kind \in {"Rook", "Queen"} /\ piece.pieceColor # this.pieceColor
          THEN none
          ELSE candidate(add(startingSquare, -2, 0), FALSE, FALSE, TRUE, FALSE, undefinedPiece)

\* King.checkAndAddQueenSide
checkAndAddQueenSide(b, this, startingSquare) ==
  IF this \notin b.canCastleQueen THEN none
  ELSE LET found == probeCastle(b, startingSquare, -1, -1, QueenSideProbeLast)
       IN IF found = "undefined" THEN throw
          ELSE IF found = "blocked" THEN none
          ELSE candidate(add(startingSquare, -2, 0), FALSE, FALSE, TRUE, FALSE, undefinedPiece)

\* the direction sets of the sliding pieces, in the order the loops probe them
RookDirections == <<<<0, 1>>, <<0, -1>>, <<1, 0>>, <<-1, 0>>>>

BishopDirections == <<<<1, 1>>, <<1, -1>>, <<-1, 1>>, <<-1, -1>>>>

QueenDirections == RookDirections \o BishopDirections

KnightOffsets ==
  <<<<1, 2>>, <<-1, 2>>, <<1, -2>>, <<-1, -2>>, <<2, 1>>, <<2, -1>>, <<-2, 1>>, <<-2, -1>>>>

KingOffsets ==
  <<<<-1, -1>>, <<-1, 0>>, <<-1, 1>>, <<0, -1>>, <<0, 1>>, <<1, -1>>, <<1, 0>>, <<1, 1>>>>

\* The body of possibleMoves as the list of the checks it makes, in order.  A check is
\* [call, df, dr, flag]: call names the method, (df, dr) is the offset of the target
\* and flag the xDone flag of a sliding direction (0 when there is none).
offsetChecks(offsets) ==
  [n \in 1..Len(offsets) |->
     [call |-> "checkAndAdd", df |-> offsets[n][1], dr |-> offsets[n][2], flag |-> 0]]

\* for (let i = 1; i < 8; i++) { one check per direction, unless its flag is set }
slidingChecks(dirs) ==
  [n \in 1..((BoardSize - 1) * Len(dirs)) |->
     LET i == ((n - 1) \div Len(dirs)) + 1
         k == ((n - 1) % Len(dirs)) + 1
     IN [call |-> "checkAndAdd", df |-> i * dirs[k][1], dr |-> i * dirs[k][2], flag |-> k]]

\* the starting ranks as they would be with the two colours exchanged
pawnStartRankExchanged(color) == IF color = "white" THEN 7 ELSE 2

pawnStartRank(color) == IF color = "white" THEN 2 ELSE 7

pawnForward(color) == IF color = "white" THEN 1 ELSE -1

pawnChecks(color) ==
  LET dr == pawnForward(color)
  IN << [call |-> "pawnCheckAndAdd", df |-> 0, dr |-> dr, flag |-> 0],
        [call |-> "pawnCheckAndAdd2", df |-> 0, dr |-> 2 * dr, flag |-> 0],
        [call |-> "checkAndAddDiagonal", df |-> 1, dr |-> dr, flag |-> 0],
        [call |-> "checkAndAddDiagonal", df |-> -1, dr |-> dr, flag |-> 0] >>

kingChecks ==
  offsetChecks(KingOffsets)
  \o << [call |-> "checkAndAddKingSide", df |-> 2, dr |-> 0, flag |-> 0],
        [call |-> "checkAndAddQueenSide", df |-> -2, dr |-> 0, flag |-> 0] >>

RookChecks == slidingChecks(RookDirections)

BishopChecks == slidingChecks(BishopDirections)

QueenChecks == slidingChecks(QueenDirections)

KnightChecks == offsetChecks(KnightOffsets)

WhitePawnChecks == pawnChecks("white")

BlackPawnChecks == pawnChecks("black")

checksOf(this) ==
  CASE this.kind = "Pawn" ->
         IF this.pieceColor = "white" THEN WhitePawnChecks ELSE BlackPawnChecks
    [] this.kind = "Rook" -> RookChecks
    [] this.kind = "Bishop" -> BishopChecks
    [] this.kind = "Queen" -> QueenChecks
    [] this.kind = "Knight" -> KnightChecks
    [] this.kind = "King" -> kingChecks

\* what the check decides on the board as it is when the check is reached; acc is
\* [b, moves, ret, done]: the board, the moves array, what the check before returned
\* ("none", "quiet" or "capture") and the flags of the sliding directions that are set
decide(acc, this, startingSquare, check) ==
  LET targetSquare == add(startingSquare, check.df, check.dr)
  IN CASE check.call = "checkAndAdd" ->
            checkAndAdd(acc.b, this, startingSquare, targetSquare)
       [] check.call = "pawnCheckAndAdd" ->
            pawnCheckAndAdd(acc.b, this, startingSquare, targetSquare)
       [] check.call = "pawnCheckAndAdd2" ->
            \* checkAndAdd(one step) && startingSquare.rank === 2 (7 for black)
            IF acc.ret # "none" /\ startingSquare.rank = pawnStartRank(this.pieceColor)
            THEN pawnCheckAndAdd(acc.b, this, startingSquare, targetSquare)
            ELSE none
       [] check.call = "checkAndAddDiagonal" ->
            checkAndAddDiagonal(acc.b, this, startingSquare, targetSquare)
       [] check.call = "checkAndAddKingSide" ->
            checkAndAddKingSide(acc.b, this, startingSquare)
       [] check.call = "checkAndAddQueenSide" ->
            checkAndAddQueenSide(acc.b, this, startingSquare)

\* the flag of a direction as it would be if a capture did not set it
setDoneOnBlockOnly(acc, check, ret) ==
  IF check.flag # 0 /\ ret = "none"
  THEN acc.done \cup {check.flag}
  ELSE acc.done

\* if (!newMove || newMove.isCapture) xDone = true
setDone(acc, check, ret) ==
  IF check.flag # 0 /\ ret # "quiet"
  THEN acc.done \cup {check.flag}
  ELSE acc.done

\* moves.push(newMove); return newMove: r is [b, move], what the constructor left
pushMove(acc, check, c, r) ==
  IF r.b.thrown THEN [acc EXCEPT !.b = r.b, !.ret = "none"]
  ELSE [b |-> r.b, moves |-> Append(acc.moves, r.move),
        ret |-> IF c.isCapture THEN "capture" ELSE "quiet",
        done |-> setDone(acc, check, IF c.isCapture THEN "capture" ELSE "quiet")]

\* what the check does once it has decided c: throw, return, or construct and push
construct(acc, this, cc, kc, startingSquare, check, c) ==
  IF c.tag = "throw" THEN [acc EXCEPT !.b = Throw(@), !.ret = "none"]
  ELSE IF c.tag = "none"
  THEN [acc EXCEPT !.ret = "none", !.done = setDone(acc, check, "none")]
  ELSE pushMove(acc, check, c,
                newMove(acc.b, cc, kc, startingSquare, c.targetSquare, this,
                        c.isCapture, c.isEnPassant, c.isCastles, c.isDoubleStep,
                        c.capturePiece))

\* one check: decide, then construct the Move and push it
runCheck(acc, this, cc, kc, startingSquare, check) ==
  construct(acc, this, cc, kc, startingSquare, check,
            decide(acc, this, startingSquare, check))

\* The loops of the code are folds over an index range.  A range is folded by halves,
\* the left half first and to the end before the right half begins: the steps run in
\* the order of the loop, one after the other, on the board the step before left.
RECURSIVE runChecks(_, _, _, _, _, _, _, _)
runChecks(acc, this, cc, kc, startingSquare, checks, lo, hi) ==
  IF lo > hi \/ acc.b.thrown THEN acc
  ELSE IF lo = hi
  THEN \* if (!xDone) { ... }: the check of a direction whose flag is set is skipped
       IF checks[lo].flag \in acc.done THEN acc
       ELSE runCheck(acc, this, cc, kc, startingSquare, checks[lo])
  ELSE LET mid == (lo + hi) \div 2
           left == runChecks(acc, this, cc, kc, startingSquare, checks, lo, mid)
       IN IF left.b.thrown THEN left
          ELSE runChecks(left, this, cc, kc, startingSquare, checks, mid + 1, hi)

\* piece.possibleMoves(board, startingSquare, checkCalculation, castleCalculation)
\* return moves: nothing is returned when a check threw
returnMoves(out) == [b |-> out.b, moves |-> IF out.b.thrown THEN <<>> ELSE out.moves]

possibleMoves(b, this, startingSquare, cc, kc) ==
  returnMoves(runChecks([b |-> b, moves |-> <<>>, ret |-> "none", done |-> {}],
                        this, cc, kc, startingSquare, checksOf(this),
                        1, Len(checksOf(this))))

\* ------------------------------------------------- legality and check type

\* the tiles in the order of the two loops of getAllPieceTiles: rank by rank, file by file
TileOrder == [i \in 1..(BoardSize * BoardSize) |->
                chessify((i - 1) % BoardSize, (i - 1) \div BoardSize)]

isOccupied(b, tile) == pieceAt(b, tile) # undefinedPiece

getAllPieceTiles(b) == SelectSeq(TileOrder, LAMBDA tile : isOccupied(b, tile))

\* moves.push(...one.moves)
pushAll(r, one) == [b |-> one.b, moves |-> r.moves \o one.moves]

\* .forEach((tile) => moves.push(...this.getLegalMoves(tile, ...))); r is [b, moves]
RECURSIVE forEachTile(_, _, _, _, _, _, _)
forEachTile(r, pieceTiles, cc, fi, kc, lo, hi) ==
  IF lo > hi \/ r.b.thrown THEN r
  ELSE IF lo = hi
  THEN pushAll(r, getLegalMoves(r.b, pieceTiles[lo], cc, fi, kc))
  ELSE LET mid == (lo + hi) \div 2
           left == forEachTile(r, pieceTiles, cc, fi, kc, lo, mid)
       IN IF left.b.thrown THEN left
          ELSE forEachTile(left, pieceTiles, cc, fi, kc, mid + 1, hi)

\* .filter((tile) => tile.piece.pieceColor === this.turn)
turnTiles(b) ==
  SelectSeq(getAllPieceTiles(b), LAMBDA tile : pieceAt(b, tile).pieceColor = b.turn)

\* a call that threw returns nothing
orThrown(r) == IF r.b.thrown THEN [b |-> r.b, moves |-> <<>>] ELSE r

getAllLegalMoves(b, cc, fi, kc) ==
  IF b.thrown THEN [b |-> b, moves |-> <<>>]
  ELSE orThrown(forEachTile([b |-> b, moves |-> <<>>], turnTiles(b), cc, fi, kc,
                            1, Len(turnTiles(b))))

\* the test of isInCheck as it would be if it never found a capture of a King
capturesNothing(moves) == \E i \in 1..Len(moves) : FALSE

\* the test of isInCheck as it would be if it looked at isCapture alone
capturesAnything(moves) == \E i \in 1..Len(moves) : moves[i].isCapture

capturesKing(moves) == \E i \in 1..Len(moves) : moves[i].capturePiece.kind = "King"

\* .some(...); this.changeTurn(); return isCheck
someCapturesKing(r) == [b |-> changeTurn(r.b), isCheck |-> capturesKing(r.moves)]

isInCheck(b) == someCapturesKing(getAllLegalMoves(changeTurn(b), FALSE, FALSE, TRUE))

\* the end of the filter callback as it would be if the trial move were not undone
undoTrialKept(r, move, c) ==
  [b |-> changeTurn(c.b),
   moves |-> IF c.isCheck THEN r.moves ELSE Append(r.moves, move)]

\* moves.filter((move) => { makeMove; changeTurn; isInCheck; changeTurn; undoLastMove })
\* the filter callback on one move; r is [b, moves]: the board and the moves kept
\* this.changeTurn(); this.undoLastMove(); return !isInCheck: c is [b, isCheck]
undoTrial(r, move, c) ==
  [b |-> undoLastMove(changeTurn(c.b)),
   moves |-> IF c.isCheck THEN r.moves ELSE Append(r.moves, move)]

keepIfLegal(r, move) == undoTrial(r, move, isInCheck(changeTurn(makeMove(r.b, move))))

RECURSIVE filterLegal(_, _, _, _)
filterLegal(r, moves, lo, hi) ==
  IF lo > hi \/ r.b.thrown THEN r
  ELSE IF lo = hi THEN keepIfLegal(r, moves[lo])
  ELSE LET mid == (lo + hi) \div 2
           left == filterLegal(r, moves, lo, mid)
       IN IF left.b.thrown THEN left
          ELSE filterLegal(left, moves, mid + 1, hi)

\* if (!illegalCalculation) return moves; return moves.filter(...)
filterMoves(r, fi) ==
  IF ~fi \/ r.b.thrown THEN r
  ELSE orThrown(filterLegal([b |-> r.b, moves |-> <<>>], r.moves, 1, Len(r.moves)))

getLegalMoves(b, selectedTile, cc, fi, kc) ==
  IF b.thrown THEN [b |-> b, moves |-> <<>>]
  ELSE IF ~isOccupied(b, selectedTile) THEN [b |-> Throw(b), moves |-> <<>>]
  ELSE filterMoves(possibleMoves(b, pieceAt(b, selectedTile), selectedTile, cc, kc), fi)

noMaterial(b) ==
  \A i \in 1..Len(TileOrder) : pieceAt(b, TileOrder[i]).kind \in {"King", "undefined"}

\* checkTypeOf as it would be with checkmate and check exchanged
checkTypeOfExchanged(noMat, isCheck, isMate) ==
  IF noMat THEN "nomaterial"
  ELSE IF isCheck /\ isMate THEN "check"
  ELSE IF isCheck /\ ~isMate THEN "checkmate"
  ELSE IF ~isCheck /\ isMate THEN "stalemate"
  ELSE "none"

checkTypeOf(noMat, isCheck, isMate) ==
  IF noMat THEN "nomaterial"
  ELSE IF isCheck /\ isMate THEN "checkmate"
  ELSE IF isCheck /\ ~isMate THEN "check"
  ELSE IF ~isCheck /\ isMate THEN "stalemate"
  ELSE "none"

\* this.undoLastMove(); return the check type (nothing is returned when a call threw)
returnCheckType(b2, checkType) ==
  [b |-> b2, checkType |-> IF b2.thrown THEN "none" ELSE checkType]

\* isCheck, noMat and the undo, on the board isInCheck left: r2 is [b, isCheck]
afterIsInCheck(isMate, r2) ==
  returnCheckType(undoLastMove(r2.b), checkTypeOf(noMaterial(r2.b), r2.isCheck, isMate))

\* isMate, on what getAllLegalMoves(false, true, false) returned: r1 is [b, moves]
afterIsMate(r1) == afterIsInCheck(Len(r1.moves) = 0, isInCheck(r1.b))

calculateCheckType(b, move) ==
  afterIsMate(getAllLegalMoves(makeMove(b, move), FALSE, TRUE, FALSE))

\* ------------------------------------------------------ createChessBoard

\* The initial positions: the placement section as (square, piece) pairs, the side to
\* move, the castling letters and the en passant section (<<>> for "-", or a file index).
\*   1: 4k3/8/8/8/8/8/8/4K2R w K -       2: 4k3/8/8/3pP3/8/8/8/4K3 w - 3
\*   3: 4k3/8/4K3/6B1/8/8/8/8 w - -      4: 4k3/8/4K3/8/8/8/8/7R w - -
Positions ==
  << [placement |-> {<<Sq("e", 1), Pc("King", "white", 1)>>,
                     <<Sq("h", 1), Pc("Rook", "white", 2)>>,
                     <<Sq("e", 8), Pc("King", "black", 3)>>},
      turn |-> "w", castling |-> {"K"}, enPassant |-> <<>>],
     [placement |-> {<<Sq("e", 1), Pc("King", "white", 1)>>,
                     <<Sq("e", 5), Pc("Pawn", "white", 2)>>,
                     <<Sq("d", 5), Pc("Pawn", "black", 3)>>,
                     <<Sq("e", 8), Pc("King", "black", 4)>>},
      turn |-> "w", castling |-> {}, enPassant |-> <<3>>],
     [placement |-> {<<Sq("e", 6), Pc("King", "white", 1)>>,
                     <<Sq("g", 5), Pc("Bishop", "white", 2)>>,
                     <<Sq("e", 8), Pc("King", "black", 3)>>},
      turn |-> "w", castling |-> {}, enPassant |-> <<>>],
     [placement |-> {<<Sq("e", 6), Pc("King", "white", 1)>>,
                     <<Sq("h", 1), Pc("Rook", "white", 2)>>,
                     <<Sq("e", 8), Pc("King", "black", 3)>>},
      turn |-> "w", castling |-> {}, enPassant |-> <<>>] >>

placedAt(placement, square) ==
  IF \E pp \in placement : pp[1] = square
  THEN (CHOOSE pp \in placement : pp[1] = square)[2]
  ELSE undefinedPiece

kingSquareIn(placement, color) ==
  (CHOOSE pp \in placement : pp[2].kind = "King" /\ pp[2].pieceColor = color)[1]

createChessBoard(fen) ==
  LET ranks == [r \in 1..BoardSize |-> [f \in 1..BoardSize |->
                  placedAt(fen.placement, chessify(f - 1, r - 1))]]
      boardTurn == IF fen.turn = "w" THEN "white" ELSE "black"
      whiteKingPosition == kingSquareIn(fen.placement, "white")
      blackKingPosition == kingSquareIn(fen.placement, "black")
      whiteKing == placedAt(fen.placement, whiteKingPosition)
      blackKing == placedAt(fen.placement, blackKingPosition)
      enPassantRank0 == IF boardTurn = "white" THEN 4 ELSE 5
  IN [tiles |-> ranks,
      turn |-> boardTurn,
      whiteKingTile |-> whiteKingPosition,
      blackKingTile |-> blackKingPosition,
      history |-> <<>>,
      doubleStep |-> IF fen.enPassant = <<>> THEN {}
                     ELSE {ranks[enPassantRank0 + 1][fen.enPassant[1] + 1]},
      canCastleKing |-> (IF "K" \in fen.castling THEN {whiteKing} ELSE {})
                        \cup (IF "k" \in fen.castling THEN {blackKing} ELSE {}),
      canCastleQueen |-> (IF "Q" \in fen.castling THEN {whiteKing} ELSE {})
                         \cup (IF "q" \in fen.castling THEN {blackKing} ELSE {}),
      thrown |-> FALSE]

\* ------------------------------------------------------------ the program

\* the longest history the caller builds
MaxHistory == 2

VARIABLES
  tiles, turn, whiteKingTile, blackKingTile, history,   \* the ChessBoard
  doubleStep, canCastleKing, canCastleQueen,            \* the flags on its pieces
  thrown,            \* a call ended in a TypeError
  op,                \* the call the caller made last
  selected,          \* the tile of the getLegalMoves call, while its moves are held
  moves,             \* the Move array the last call returned, until a move is applied or undone
  fen,               \* the position the board was created from
  applied,           \* the moves the caller applied and has not undone
  added              \* the last Square.add call: its receiver, arguments and result

boardVars == <<tiles, turn, whiteKingTile, blackKingTile, history,
               doubleStep, canCastleKing, canCastleQueen, thrown>>

vars == <<boardVars, op, selected, moves, fen, applied, added>>

\* the board as the record the methods work on
board ==
  [tiles |-> tiles, turn |-> turn, whiteKingTile |-> whiteKingTile,
   blackKingTile |-> blackKingTile, history |-> history, doubleStep |-> doubleStep,
   canCastleKing |-> canCastleKing, canCastleQueen |-> canCastleQueen,
   thrown |-> thrown]

Becomes(b) ==
  /\ tiles' = b.tiles
  /\ turn' = b.turn
  /\ whiteKingTile' = b.whiteKingTile
  /\ blackKingTile' = b.blackKingTile
  /\ history' = b.history
  /\ doubleStep' = b.doubleStep
  /\ canCastleKing' = b.canCastleKing
  /\ canCastleQueen' = b.canCastleQueen
  /\ thrown' = b.thrown

Init ==
  /\ fen \in {Positions[i] : i \in 1..Len(Positions)}
  /\ \E b \in {createChessBoard(fen)} :
       /\ tiles = b.tiles
       /\ turn = b.turn
       /\ whiteKingTile = b.whiteKingTile
       /\ blackKingTile = b.blackKingTile
       /\ history = b.history
       /\ doubleStep = b.doubleStep
       /\ canCastleKing = b.canCastleKing
       /\ canCastleQueen = b.canCastleQueen
       /\ thrown = b.thrown
  /\ op = "create"
  /\ selected = InvalidSquare
  /\ moves = <<>>
  /\ applied = <<>>
  /\ added = <<>>

\* the tiles the consumer selects: those of the side to move
selectable(b) == {sq \in Squares : isOccupied(b, sq) /\ pieceAt(b, sq).pieceColor = b.turn}

\* board.getLegalMoves(tile), with its default arguments, while the caller may still
\* apply a move
LegalMoves(selectedTile) ==
  /\ ~thrown
  /\ Len(history) < MaxHistory
  /\ selectedTile \in selectable(board)
  /\ \E r \in {getLegalMoves(board, selectedTile, TRUE, TRUE, TRUE)} :
       /\ Becomes(r.b)
       /\ moves' = r.moves
  /\ op' = "legal_moves"
  /\ selected' = selectedTile
  /\ UNCHANGED <<fen, applied, added>>

\* board.getAllLegalMoves(), with its default arguments, asked of a position as it is
\* created or as a move has left it
AllLegalMoves ==
  /\ ~thrown
  /\ op \in {"create", "make_move"}
  /\ \E r \in {getAllLegalMoves(board, TRUE, TRUE, TRUE)} :
       /\ Becomes(r.b)
       /\ moves' = r.moves
  /\ op' = "all_legal_moves"
  /\ selected' = InvalidSquare
  /\ UNCHANGED <<fen, applied, added>>

\* board.makeMove(move), for a move of the array getLegalMoves just returned
MakeMove(i) ==
  /\ ~thrown
  /\ op = "legal_moves"
  /\ i \in 1..Len(moves)
  /\ Len(history) < MaxHistory
  /\ Becomes(makeMove(board, moves[i]))
  /\ applied' = Append(applied, moves[i])
  /\ moves' = <<>>
  /\ op' = "make_move"
  /\ selected' = InvalidSquare
  /\ UNCHANGED <<fen, added>>

\* board.undoLastMove()
UndoLastMove ==
  /\ ~thrown
  /\ Becomes(undoLastMove(board))
  /\ applied' = IF Len(applied) = 0 THEN applied ELSE SubSeq(applied, 1, Len(applied) - 1)
  /\ moves' = <<>>
  /\ op' = "undo_last_move"
  /\ selected' = InvalidSquare
  /\ UNCHANGED <<fen, added>>

Next ==
  \/ \E selectedTile \in Squares : LegalMoves(selectedTile)
  \/ AllLegalMoves
  \/ \E i \in 1..Len(moves) : MakeMove(i)
  \/ UndoLastMove

Spec == Init /\ [][Next]_vars

\* -------------------------------------------------------- Square.add, called

\* the largest offset a square is translated by
MaxAdd == 8

Offsets == (0 - MaxAdd)..MaxAdd

InitSquare == Init /\ fen = Positions[1]

\* square.add(fileAdd, rankAdd): the receiver as the call leaves it, and what it returns
Add(square, fileAdd, rankAdd) ==
  /\ Len(added) = 0
  /\ added' = << [square |-> square, fileAdd |-> fileAdd, rankAdd |-> rankAdd,
                  result |-> add(square, fileAdd, rankAdd)] >>
  /\ UNCHANGED <<boardVars, op, selected, moves, fen, applied>>

NextSquare ==
  \E square \in Squares : \E fileAdd \in Offsets : \E rankAdd \in Offsets :
    Add(square, fileAdd, rankAdd)

SpecSquare == InitSquare /\ [][NextSquare]_vars

\* ----------------------------------------------- the generators, called alone

\* the kinds of piece other than the king
PieceKinds == {"Pawn", "Knight", "Bishop", "Rook", "Queen"}

\* the two kings on their home squares and one more piece, whose colour is to move
onePiece(kind, color, square) ==
  [placement |-> {<<Sq("e", 1), Pc("King", "white", 1)>>,
                  <<Sq("e", 8), Pc("King", "black", 2)>>,
                  <<square, Pc(kind, color, 3)>>},
   turn |-> IF color = "white" THEN "w" ELSE "b", castling |-> {}, enPassant |-> <<>>]

\* a king on any square with both castling letters of its colour, to move; the other
\* king on the home square of the far side
oneKing(color, square) ==
  [placement |-> {<<square, Pc("King", color, 1)>>,
                  <<Sq("e", IF square.rank <= 4 THEN 8 ELSE 1), Pc("King", other(color), 2)>>},
   turn |-> IF color = "white" THEN "w" ELSE "b",
   castling |-> IF color = "white" THEN {"K", "Q"} ELSE {"k", "q"},
   enPassant |-> <<>>]

\* r3k2r/8/8/8/8/8/8/R3K2R <turn> KQkq -
castlePosition(fenTurn) ==
  [placement |-> {<<Sq("a", 1), Pc("Rook", "white", 1)>>,
                  <<Sq("e", 1), Pc("King", "white", 2)>>,
                  <<Sq("h", 1), Pc("Rook", "white", 3)>>,
                  <<Sq("a", 8), Pc("Rook", "black", 4)>>,
                  <<Sq("e", 8), Pc("King", "black", 5)>>,
                  <<Sq("h", 8), Pc("Rook", "black", 6)>>},
   turn |-> fenTurn, castling |-> {"K", "Q", "k", "q"}, enPassant |-> <<>>]

\* 4k3/8/8/8/3p4/8/4P3/4K3 w - -
PawnPosition ==
  [placement |-> {<<Sq("e", 1), Pc("King", "white", 1)>>,
                  <<Sq("e", 2), Pc("Pawn", "white", 2)>>,
                  <<Sq("d", 4), Pc("Pawn", "black", 3)>>,
                  <<Sq("e", 8), Pc("King", "black", 4)>>},
   turn |-> "w", castling |-> {}, enPassant |-> <<>>]

GenPositions ==
  {onePiece(kind, color, square) :
     kind \in PieceKinds, color \in Colors, square \in Squares \ {Sq("e", 1), Sq("e", 8)}}
  \cup {oneKing(color, square) : color \in Colors, square \in Squares}
  \cup {castlePosition("w"), castlePosition("b"), PawnPosition, Positions[2]}

\* the state after ChessBoard.createChessBoard of one of the positions
InitFrom(positions) ==
  /\ fen \in positions
  /\ \E b \in {createChessBoard(fen)} :
       /\ tiles = b.tiles
       /\ turn = b.turn
       /\ whiteKingTile = b.whiteKingTile
       /\ blackKingTile = b.blackKingTile
       /\ history = b.history
       /\ doubleStep = b.doubleStep
       /\ canCastleKing = b.canCastleKing
       /\ canCastleQueen = b.canCastleQueen
       /\ thrown = b.thrown
  /\ op = "create"
  /\ selected = InvalidSquare
  /\ moves = <<>>
  /\ applied = <<>>
  /\ added = <<>>

InitGen == InitFrom(GenPositions)

\* the most moves applied to a position
MaxPly == 1

\* board.getLegalMoves(tile, false, false, castleCalculation): the moves of the
\* generator of the piece, no trial made, while the caller may still apply one
PossibleMoves(selectedTile, castleCalculation) ==
  /\ ~thrown
  /\ Len(history) < MaxPly
  /\ selectedTile \in selectable(board)
  /\ \E r \in {getLegalMoves(board, selectedTile, FALSE, FALSE, castleCalculation)} :
       /\ Becomes(r.b)
       /\ moves' = r.moves
  /\ op' = "possible_moves"
  /\ selected' = selectedTile
  /\ UNCHANGED <<fen, applied, added>>

\* board.makeMove(move), for a move of the array the generator returned
ApplyMove(i) ==
  /\ ~thrown
  /\ op = "possible_moves"
  /\ i \in 1..Len(moves)
  /\ Len(history) < MaxPly
  /\ Becomes(makeMove(board, moves[i]))
  /\ applied' = Append(applied, moves[i])
  /\ moves' = <<>>
  /\ op' = "make_move"
  /\ selected' = InvalidSquare
  /\ UNCHANGED <<fen, added>>

NextGen ==
  \/ \E selectedTile \in Squares : \E castleCalculation \in BOOLEAN :
       PossibleMoves(selectedTile, castleCalculation)
  \/ \E i \in 1..Len(moves) : ApplyMove(i)

SpecGen == InitGen /\ [][NextGen]_vars

\* ------------------------------------------------ a position, asked for its moves

\* 4k3/8/8/8/8/8/8/4K3 w - -
KingsOnlyPosition ==
  [placement |-> {<<Sq("e", 1), Pc("King", "white", 1)>>,
                  <<Sq("e", 8), Pc("King", "black", 2)>>},
   turn |-> "w", castling |-> {}, enPassant |-> <<>>]

backRank == <<"Rook", "Knight", "Bishop", "Queen", "King", "Bishop", "Knight", "Rook">>

\* rnbqkbnr/pppppppp/8/8/8/8/PPPPPPPP/RNBQKBNR w KQkq -
StandardPosition ==
  [placement |->
     {<<chessify(f, 0), Pc(backRank[f + 1], "white", f + 1)>> : f \in 0..(BoardSize - 1)}
     \cup {<<chessify(f, 1), Pc("Pawn", "white", f + 9)>> : f \in 0..(BoardSize - 1)}
     \cup {<<chessify(f, 6), Pc("Pawn", "black", f + 17)>> : f \in 0..(BoardSize - 1)}
     \cup {<<chessify(f, 7), Pc(backRank[f + 1], "black", f + 25)>> : f \in 0..(BoardSize - 1)},
   turn |-> "w", castling |-> {"K", "Q", "k", "q"}, enPassant |-> <<>>]

\* the squares next to the home square of the king of a colour
besideHome(color) ==
  IF color = "white" THEN {Sq("d", 1), Sq("d", 2), Sq("e", 2), Sq("f", 2), Sq("f", 1)}
  ELSE {Sq("d", 8), Sq("d", 7), Sq("e", 7), Sq("f", 7), Sq("f", 8)}

\* the two kings at home and one piece next to the king of the other colour, which is
\* to move
pieceBesideKing(kind, color, square) ==
  [placement |-> onePiece(kind, color, square).placement,
   turn |-> IF color = "white" THEN "b" ELSE "w", castling |-> {}, enPassant |-> <<>>]

QueryPositions ==
  {KingsOnlyPosition, StandardPosition}
  \cup {pieceBesideKing(kind, "black", square) :
          kind \in PieceKinds, square \in besideHome("white")}
  \cup {pieceBesideKing(kind, "white", square) :
          kind \in PieceKinds, square \in besideHome("black")}

InitQuery == InitFrom(QueryPositions)

NextQuery ==
  \/ \E selectedTile \in Squares : LegalMoves(selectedTile)
  \/ AllLegalMoves

SpecQuery == InitQuery /\ [][NextQuery]_vars

\* -------------------------------- generation beside another piece

\* where the one more piece stands: next to the left corner of its colour, on the rank
\* the pawns of its colour start from
blockedHome(color) == Sq("b", pawnStartRank(color))

\* where the other piece stands, as an offset from the first, in steps forward of its
\* colour: one and two squares ahead, two squares along the diagonal, two along the
\* rank, and a knight's jump away
BlockerOffsets == {<<0, 1>>, <<0, 2>>, <<2, 2>>, <<2, 0>>, <<1, 2>>}

\* the two kings on their home squares, one more piece, whose colour is to move, and a
\* knight of either colour on a square near it
blockedPiece(kind, color, blockerColor, off) ==
  [placement |-> {<<Sq("e", 1), Pc("King", "white", 1)>>,
                  <<Sq("e", 8), Pc("King", "black", 2)>>,
                  <<blockedHome(color), Pc(kind, color, 3)>>,
                  <<add(blockedHome(color), off[1], off[2] * pawnForward(color)),
                    Pc("Knight", blockerColor, 4)>>},
   turn |-> IF color = "white" THEN "w" ELSE "b", castling |-> {}, enPassant |-> <<>>]

BlockedPositions ==
  {blockedPiece(kind, color, blockerColor, off) :
     kind \in PieceKinds, color \in Colors, blockerColor \in Colors, off \in BlockerOffsets}

InitBlocked == InitFrom(BlockedPositions)

SpecBlocked == InitBlocked /\ [][NextGen]_vars

\* ------------------------------------------- the rules, stated on the board

Range(seq) == {seq[i] : i \in 1..Len(seq)}

sign(n) == IF n > 0 THEN 1 ELSE IF n < 0 THEN -1 ELSE 0

max(m, n) == IF m > n THEN m ELSE n

\* every square strictly between from and to, which lie on one line, is empty
clearPath(b, from, df, dr) ==
  \A k \in 1..(max(abs(df), abs(dr)) - 1) :
    pieceAt(b, add(from, k * sign(df), k * sign(dr))) = undefinedPiece

\* the piece on from attacks the square to, by the geometry of its kind
attacks(b, from, to) ==
  LET piece == pieceAt(b, from)
      df == simplify(to).file - simplify(from).file
      dr == simplify(to).rank - simplify(from).rank
      straight == (df = 0) # (dr = 0)
      diagonal == abs(df) = abs(dr) /\ df # 0
  IN CASE piece.kind = "Pawn" -> abs(df) = 1 /\ dr = pawnForward(piece.pieceColor)
       [] piece.kind = "Knight" -> {abs(df), abs(dr)} = {1, 2}
       [] piece.kind = "King" -> max(abs(df), abs(dr)) = 1
       [] piece.kind = "Rook" -> straight /\ clearPath(b, from, df, dr)
       [] piece.kind = "Bishop" -> diagonal /\ clearPath(b, from, df, dr)
       [] piece.kind = "Queen" -> (straight \/ diagonal) /\ clearPath(b, from, df, dr)
       [] OTHER -> FALSE

\* the squares the kings of a colour stand on
kingSquares(b, color) ==
  {sq \in Squares : pieceAt(b, sq).kind = "King" /\ pieceAt(b, sq).pieceColor = color}

\* a king of the colour stands on a square a piece of the other colour attacks
attacked(b, color) ==
  \E to \in kingSquares(b, color) : \E from \in Squares :
    pieceAt(b, from).pieceColor = other(color) /\ attacks(b, from, to)

\* what a move is, apart from the flags and the check type its constructor computes
key(move) ==
  [startingSquare |-> move.startingSquare, targetSquare |-> move.targetSquare,
   isCapture |-> move.isCapture, isEnPassant |-> move.isEnPassant,
   isCastles |-> move.isCastles, isDoubleStep |-> move.isDoubleStep]

\* the pseudo-legal moves of the piece on a tile: what its generator yields on the board
\* as it is, no trial made
pseudoLegal(b, tile) == Range(possibleMoves(b, pieceAt(b, tile), tile, FALSE, TRUE).moves)

\* the pseudo-legal moves of a tile after which no king of the mover is attacked
safeMoves(b, tile) ==
  {m \in pseudoLegal(b, tile) : ~attacked(makeMove(b, m), pieceAt(b, tile).pieceColor)}

\* ------------------------------------------------------------- the claims

\* C1: in every reachable state S, for every move m legal_moves returns for a piece of
\* the side to move, make_move(m) followed by undo_last_move() leaves the board exactly
\* as it was: tiles, turn, castling flags, king tiles, double_step flags and history.
\* Stated for the moves the caller holds (the default call) and for those of
\* legal_moves(tile, false, false, true), which leaves S as it is.
C1_RoundTrip ==
  ~thrown =>
    /\ op = "legal_moves" =>
         \A m \in Range(moves) : undoLastMove(makeMove(board, m)) = board
    /\ \A tile \in selectable(board) : \A m \in pseudoLegal(board, tile) :
         undoLastMove(makeMove(board, m)) = board

\* C2: legal_moves(tile) with filter_illegal = true returns exactly the pseudo-legal
\* moves of the tile's piece after which the mover's king is not attacked: none that
\* leaves the king in check, and every one that keeps it safe.
C2_FilterExact ==
  [][(op' = "legal_moves" /\ ~thrown') =>
       {key(m) : m \in Range(moves')} = {key(m) : m \in safeMoves(board, selected')}]_vars

\* C3: legal_moves and all_legal_moves (and the is_in_check and classify calls they
\* make) are read-only: when the call returns, tiles, turn, king tiles, castling flags,
\* double_step flags and the history are what they were before the call.
C3_ReadOnly ==
  [][(op' \in {"legal_moves", "all_legal_moves"} /\ ~thrown') => boardVars' = boardVars]_vars

\* the move on top of the history cleared the castling flags of the king of this colour
topCancels(color, kingside) ==
  /\ Len(history) > 0
  /\ history[Len(history)].movePiece.pieceColor = color
  /\ IF kingside THEN history[Len(history)].cancelKingsideCastles
     ELSE history[Len(history)].cancelQueensideCastles

\* C4: a castling flag of a king that is false becomes true only by undo_last_move
\* undoing a move of that king's colour that cleared the flag; no make_move, no
\* legal_moves or classify call and no undo of another move sets it.
C4_FlagNeverRestored ==
  [][\A sq \in Squares :
       LET king == pieceAt(board, sq)
       IN king.kind = "King" =>
            /\ (king \notin canCastleKing /\ king \in canCastleKing') =>
                 (op' = "undo_last_move" /\ topCancels(king.pieceColor, TRUE))
            /\ (king \notin canCastleQueen /\ king \in canCastleQueen') =>
                 (op' = "undo_last_move" /\ topCancels(king.pieceColor, FALSE))]_vars

\* C5: turn alternates with the history: turn is the initial turn iff the history
\* length is even.
C5_TurnParity ==
  (turn = createChessBoard(fen).turn) <=> (Len(history) % 2 = 0)

\* C5 witness: an undo has popped the second of two applied moves, and it is black's turn
C5_Witness ==
  op = "undo_last_move" /\ ~thrown /\ Len(history) = 1 /\ turn = "black"

\* C6: the history is the sequence of the moves the caller applied and has not undone:
\* its length is their number, its top the move applied last, and no trial move of a
\* legality filter or a classification remains on it.
C6_HistoryIsApplied == history = applied

C8_DoubleStepOnlyAfterAdvance ==
  \A pawn \in doubleStep :
    IF Len(history) = 0 THEN pawn \in createChessBoard(fen).doubleStep
    ELSE /\ history[Len(history)].isDoubleStep
         /\ history[Len(history)].movePiece = pawn

\* the pseudo-legal moves of a colour: those getAllLegalMoves(false, false) yields for it
pseudoLegalOf(b, color) ==
  getAllLegalMoves([b EXCEPT !.turn = color], FALSE, FALSE, TRUE)

\* is_in_check for a colour agrees with: some pseudo-legal move of the other colour
\* has the square of the colour's king as its target
checkIsKingTarget(b, color) ==
  LET c == isInCheck([b EXCEPT !.turn = color])
      r == pseudoLegalOf(b, other(color))
  IN (~c.b.thrown /\ ~r.b.thrown) =>
       (c.isCheck <=> \E m \in Range(r.moves) : m.targetSquare \in kingSquares(b, color))

\* C9: is_in_check for colour c is true iff some pseudo-legal move of the opposing
\* colour has c's king square as its target.
C9_CheckIffKingTargeted ==
  ~thrown => \A color \in Colors : checkIsKingTarget(board, color)

\* C9 witness: a move has been applied and is_in_check is true for the side to move,
\* whose king's square a pseudo-legal move of the other side targets
C9_Witness ==
  /\ op = "make_move" /\ ~thrown
  /\ isInCheck(board).isCheck
  /\ \E m \in Range(pseudoLegalOf(board, other(turn)).moves) :
       m.targetSquare \in kingSquares(board, turn)

\* the classification the claim gives a position by check and by the absence of a reply
classification(inCheck, noReply) ==
  IF inCheck /\ noReply THEN "checkmate"
  ELSE IF ~inCheck /\ noReply THEN "stalemate"
  ELSE IF inCheck THEN "check"
  ELSE "none"

\* C10: when a non-king piece remains after a move m, classify(m) is checkmate iff the
\* side to move is in check and all_legal_moves() is empty, stalemate iff it is not in
\* check and all_legal_moves() is empty, check iff it is in check and has a reply, and
\* none otherwise.
C10_Classify ==
  [][(op = "make_move" /\ op' = "all_legal_moves" /\ ~thrown' /\ ~noMaterial(board)) =>
       history[Len(history)].checkType = classification(attacked(board, turn), moves' = <<>>)]_vars

\* C11: classify(m) is no-material-draw exactly when the position after m holds no piece
\* other than the two kings, whatever the check status; in the kings-only position
\* 4k3/8/8/8/8/8/8/4K3 every legal move is classified no-material-draw.
C11_NoMaterial ==
  (~thrown /\ op \in {"legal_moves", "all_legal_moves"}) =>
    \A m \in Range(moves) :
      /\ (m.checkType = "nomaterial") <=> noMaterial(makeMove(board, m))
      /\ fen = KingsOnlyPosition => m.checkType = "nomaterial"

\* a white pawn stands on tile, on rank 5, it is white's turn, the square d files aside
\* holds a black pawn with double_step, and the square behind that pawn is empty
whiteEnPassantCase(b, tile, d) ==
  /\ b.turn = "white"
  /\ pieceAt(b, tile).kind = "Pawn" /\ pieceAt(b, tile).pieceColor = "white"
  /\ tile.rank = 5
  /\ isValid(add(tile, d, 0))
  /\ pieceAt(b, add(tile, d, 0)).kind = "Pawn"
  /\ pieceAt(b, add(tile, d, 0)).pieceColor = "black"
  /\ pieceAt(b, add(tile, d, 0)) \in b.doubleStep
  /\ pieceAt(b, add(tile, d, 1)) = undefinedPiece

\* the board after the capture: the victim gone from its square beside the origin, the
\* capturing pawn on the target, the origin empty
enPassantApplied(after, pawn, tile, d, forward) ==
  /\ ~after.thrown
  /\ pieceAt(after, add(tile, d, 0)) = undefinedPiece
  /\ pieceAt(after, add(tile, d, forward)) = pawn
  /\ pieceAt(after, tile) = undefinedPiece

\* C12: a white pawn on rank 5 beside a black pawn that has double_step gets a generated
\* diagonal move into the empty square behind the black pawn, flagged is_en_passant;
\* make_move of it removes the black pawn from its rank-5 square and puts the white
\* pawn on the destination.
C12_WhiteEnPassant ==
  ~thrown =>
    \A tile \in Squares : \A d \in {-1, 1} :
      whiteEnPassantCase(board, tile, d) =>
        \E m \in pseudoLegal(board, tile) :
          /\ m.targetSquare = add(tile, d, 1)
          /\ m.isEnPassant /\ m.isCapture
          /\ m.capturePiece = pieceAt(board, add(tile, d, 0))
          /\ enPassantApplied(makeMove(board, m), pieceAt(board, tile), tile, d, 1)

\* C12 witness: the move applied last is a white en passant capture; its pawn stands on
\* the target and the square behind the target is empty
C12_Witness ==
  /\ op = "make_move" /\ ~thrown /\ Len(history) > 0
  /\ history[Len(history)].isEnPassant
  /\ history[Len(history)].movePiece.pieceColor = "white"
  /\ pieceAt(board, history[Len(history)].targetSquare) = history[Len(history)].movePiece
  /\ pieceAt(board, add(history[Len(history)].targetSquare, 0, -1)) = undefinedPiece

\* a black pawn stands on tile, on rank 4, it is black's turn, the square d files aside
\* holds a white pawn with double_step, and the square behind that pawn is empty
blackEnPassantCase(b, tile, d) ==
  /\ b.turn = "black"
  /\ pieceAt(b, tile).kind = "Pawn" /\ pieceAt(b, tile).pieceColor = "black"
  /\ tile.rank = 4
  /\ isValid(add(tile, d, 0))
  /\ pieceAt(b, add(tile, d, 0)).kind = "Pawn"
  /\ pieceAt(b, add(tile, d, 0)).pieceColor = "white"
  /\ pieceAt(b, add(tile, d, 0)) \in b.doubleStep
  /\ pieceAt(b, add(tile, d, -1)) = undefinedPiece

\* C13: a black pawn on rank 4 beside a white pawn that has double_step gets a generated
\* diagonal move into the empty square behind the white pawn (rank 3), flagged
\* is_en_passant, with that white pawn as the captured piece.
C13_BlackEnPassant ==
  ~thrown =>
    \A tile \in Squares : \A d \in {-1, 1} :
      blackEnPassantCase(board, tile, d) =>
        \E m \in pseudoLegal(board, tile) :
          /\ m.targetSquare = add(tile, d, -1)
          /\ m.isEnPassant /\ m.isCapture
          /\ m.capturePiece = pieceAt(board, add(tile, d, 0))

\* the square a king starts the game on
homeSquare(color) == Sq("e", IF color = "white" THEN 1 ELSE 8)

\* the king of tile stands on its home square with the flag of the wing set, and the
\* squares between it and the rook of the wing are empty
kingSideCase(b, tile) ==
  /\ pieceAt(b, tile).kind = "King"
  /\ tile = homeSquare(pieceAt(b, tile).pieceColor)
  /\ pieceAt(b, tile) \in b.canCastleKing
  /\ \A file \in 1..2 : pieceAt(b, add(tile, file, 0)) = undefinedPiece

queenSideCase(b, tile) ==
  /\ pieceAt(b, tile).kind = "King"
  /\ tile = homeSquare(pieceAt(b, tile).pieceColor)
  /\ pieceAt(b, tile) \in b.canCastleQueen
  /\ \A file \in 1..3 : pieceAt(b, add(tile, 0 - file, 0)) = undefinedPiece

\* among the moves is the castling move of the king of tile, two files aside
hasCastle(ms, tile, df) ==
  \E m \in Range(ms) :
    m.isCastles /\ m.startingSquare = tile /\ m.targetSquare = add(tile, df, 0)

\* C14: a king on its home square with can_castle_kingside and the two squares between
\* king and rook empty gets a generated move two files toward the rook, flagged
\* is_castle, for every value of check_calc and castle_calc, and so when legal_moves is
\* called on its tile with the default arguments; likewise queenside with the three
\* squares empty.
C14_CastleGenerated ==
  [][/\ ~thrown =>
          \A tile \in Squares : \A cc \in BOOLEAN : \A kc \in BOOLEAN :
            /\ kingSideCase(board, tile) =>
                 hasCastle(possibleMoves(board, pieceAt(board, tile), tile, cc, kc).moves,
                           tile, 2)
            /\ queenSideCase(board, tile) =>
                 hasCastle(possibleMoves(board, pieceAt(board, tile), tile, cc, kc).moves,
                           tile, -2)
     /\ (op' = "legal_moves" /\ ~thrown /\ ~thrown') =>
          /\ kingSideCase(board, selected') => hasCastle(moves', selected', 2)
          /\ queenSideCase(board, selected') => hasCastle(moves', selected', -2)]_vars

\* the corner of the rook of a wing, seen from the king's home square: df is 2 for the
\* kingside move of the king and -2 for the queenside one
cornerOf(tile, df) == IF df > 0 THEN add(tile, 3, 0) ELSE add(tile, -4, 0)

\* the castling move m of the king on its home square tile, to df files aside, with a
\* rook of the king's colour in the corner of that wing, the king's colour to move
castleCase(b, tile, m, df) ==
  /\ m.isCastles /\ m.targetSquare = add(tile, df, 0)
  /\ tile = homeSquare(m.movePiece.pieceColor)
  /\ b.turn = m.movePiece.pieceColor
  /\ pieceAt(b, cornerOf(tile, df)).kind = "Rook"
  /\ pieceAt(b, cornerOf(tile, df)).pieceColor = m.movePiece.pieceColor

\* the board after castling: king two files aside, the rook of the corner on the square
\* the king passed over, the corner and the king's origin empty
castled(after, king, rook, tile, df) ==
  /\ ~after.thrown
  /\ pieceAt(after, add(tile, df, 0)) = king
  /\ pieceAt(after, add(tile, sign(df), 0)) = rook
  /\ pieceAt(after, cornerOf(tile, df)) = undefinedPiece
  /\ pieceAt(after, tile) = undefinedPiece

\* C15: make_move of a castling move relocates the rook in the same call: after kingside
\* castling the king is two files toward the h-rook, the rook stands on the square next
\* to the king on the side of the king's origin and the rook's corner is empty; after
\* queenside castling the a-rook stands next to the king on its other side and its
\* corner is empty.
C15_CastleRelocatesRook ==
  ~thrown =>
    \A color \in Colors : \A tile \in kingSquares(board, color) :
      \A m \in pseudoLegal(board, tile) : \A df \in {-2, 2} :
        castleCase(board, tile, m, df) =>
          castled(makeMove(board, m), pieceAt(board, tile),
                  pieceAt(board, cornerOf(tile, df)), tile, df)

\* C15 witness: the move applied last is black's queenside castling: king on c8, the
\* a-rook on d8, a8 and e8 empty
C15_Witness ==
  /\ op = "make_move" /\ ~thrown /\ Len(history) = 1
  /\ history[1].isCastles /\ history[1].targetSquare = Sq("c", 8)
  /\ pieceAt(board, Sq("c", 8)).kind = "King"
  /\ pieceAt(board, Sq("d", 8)).kind = "Rook"
  /\ pieceAt(board, Sq("a", 8)) = undefinedPiece
  /\ pieceAt(board, Sq("e", 8)) = undefinedPiece

\* C16: in no reachable state has a call dereferenced the tile of an invalid square and
\* failed.
C16_NoTypeError == ~thrown

\* the number of moves of an array made by a piece of a kind
movesOfKind(ms, kind) == Cardinality({i \in 1..Len(ms) : ms[i].movePiece.kind = kind})

\* C18: in the standard initial position all_legal_moves() yields exactly 20 moves for
\* white: 16 pawn moves and 4 knight moves, none for any other piece.
C18_TwentyMoves ==
  (fen = StandardPosition /\ op = "all_legal_moves") =>
    /\ ~thrown
    /\ Len(moves) = 20
    /\ movesOfKind(moves, "Pawn") = 16
    /\ movesOfKind(moves, "Knight") = 4
    /\ \A m \in Range(moves) : m.movePiece.pieceColor = "white"

\* C18 witness: all_legal_moves() has returned on the standard initial position, with
\* the two moves of the knight of b1 among its moves
C18_Witness ==
  /\ fen = StandardPosition /\ op = "all_legal_moves" /\ ~thrown
  /\ Len(moves) = 20
  /\ Cardinality({i \in 1..Len(moves) : moves[i].startingSquare = Sq("b", 1)}) = 2

\* C19: undo_last_move on an empty history is a no-op: it raises no error and leaves
\* tiles, turn, king tiles, castling flags, double_step flags and the history unchanged.
C19_UndoOnEmpty ==
  [][(op' = "undo_last_move" /\ Len(history) = 0) => boardVars' = boardVars]_vars

\* C19 witness: undo_last_move has returned on the board as it was created, nothing
\* applied, no error raised
C19_Witness ==
  /\ op = "undo_last_move" /\ ~thrown
  /\ Len(history) = 0 /\ Len(applied) = 0
  /\ board = createChessBoard(fen)

\* C17: for every piece kind, colour, origin square and board occupancy, every move
\* possible_moves yields has a target square that is on the board.
C17_TargetsValid ==
  op = "possible_moves" => \A m \in Range(moves) : isValid(m.targetSquare)

\* C17 witness: the generator of a knight in the corner h8 has returned its two moves
C17_Witness ==
  /\ op = "possible_moves" /\ ~thrown
  /\ selected = Sq("h", 8) /\ pieceAt(board, selected).kind = "Knight"
  /\ Len(moves) = 2
  /\ \A m \in Range(moves) : isValid(m.targetSquare)

\* the index of a file letter among the eight files
fileIndex(file) == CHOOSE i \in 0..7 : ChessFiles[i + 1] = file

inRange(n) == 0 <= n /\ n < 8

\* what the claim gives for the square (f, r) translated by (df, dr)
translated(call) ==
  LET f == fileIndex(call.square.file) + call.fileAdd
      r == (call.square.rank - 1) + call.rankAdd
  IN [inside |-> inRange(f) /\ inRange(r), file |-> f, rank |-> r]

\* C20: Square.add(df, dr) on a valid square (f, r) returns the valid square
\* (f+df, r+dr) when both coordinates stay in [0,8) and the invalid square otherwise;
\* is_valid() of the result is true iff both coordinates are in range.
C20_Add ==
  \A i \in 1..Len(added) :
    LET to == translated(added[i])
    IN /\ isValid(added[i].result) <=> to.inside
       /\ to.inside =>
            added[i].result = [file |-> ChessFiles[to.file + 1], rank |-> to.rank + 1]
       /\ ~to.inside => added[i].result = InvalidSquare

\* C20 witness: h8 has been translated by (-7, -7), and a1 is returned
C20_Witness ==
  /\ Len(added) = 1
  /\ added[1].square = Sq("h", 8) /\ added[1].fileAdd = -7 /\ added[1].rankAdd = -7
  /\ added[1].result = Sq("a", 1)

\* the castling flags of the board after make_move(m) followed by undo_last_move() are
\* those of the board before
flagsRoundTrip(b, m) ==
  LET after == undoLastMove(makeMove(b, m))
  IN /\ after.canCastleKing = b.canCastleKing
     /\ after.canCastleQueen = b.canCastleQueen

\* C21: undo_last_move of a move that cancelled castling rights restores the castling
\* flags of the mover's king to the values they had before the move and leaves the flags
\* of the opponent's king unchanged.  Stated for every move of a piece of the side to
\* move that cancels a right, those the caller holds and those the generators yield:
\* applied and undone, it leaves both flag sets as they were.
C21_UndoRestoresFlags ==
  ~thrown =>
    /\ op = "legal_moves" =>
         \A m \in Range(moves) :
           (m.cancelKingsideCastles \/ m.cancelQueensideCastles) => flagsRoundTrip(board, m)
    /\ \A tile \in selectable(board) : \A m \in pseudoLegal(board, tile) :
         (m.cancelKingsideCastles \/ m.cancelQueensideCastles) => flagsRoundTrip(board, m)

\* the king pieces of a colour on the board
kingsOf(b, color) == {pieceAt(b, sq) : sq \in kingSquares(b, color)}

\* a flag set after a move: the kings of the mover's colour lose the flag if the move
\* cancels it, and nothing else changes
cleared(flags, b, move, cancels) ==
  IF cancels THEN flags \ kingsOf(b, move.movePiece.pieceColor) ELSE flags

\* C22: make_move of a move with cancels_kingside_rights / cancels_queenside_rights set
\* clears the corresponding flag on the king of the colour that moves and leaves the
\* castling flags of the other king unchanged; a move without those flags changes no
\* castling flag.
C22_MakeMoveClearsFlags ==
  [][(op' = "make_move" /\ ~thrown') =>
       /\ canCastleKing' =
            cleared(canCastleKing, board, history'[Len(history')],
                    history'[Len(history')].cancelKingsideCastles)
       /\ canCastleQueen' =
            cleared(canCastleQueen, board, history'[Len(history')],
                    history'[Len(history')].cancelQueensideCastles)]_vars

\* C22 witness: in r3k2r/8/8/8/8/8/8/R3K2R a white rook move that cancels both rights is
\* applied; the white king has lost both flags and the black king keeps both
C22_Witness ==
  /\ fen = castlePosition("w") /\ op = "make_move" /\ ~thrown /\ Len(history) = 1
  /\ history[1].movePiece.kind = "Rook"
  /\ history[1].cancelKingsideCastles /\ history[1].cancelQueensideCastles
  /\ kingsOf(board, "white") \cap (canCastleKing \cup canCastleQueen) = {}
  /\ kingsOf(board, "black") \subseteq (canCastleKing \cap canCastleQueen)

\* the tracked king tile of each colour is the one tile that holds a king of that colour
tracked(b) == \A color \in Colors : kingSquares(b, color) = {kingTile(b, color)}

enPassantMove(b, tile, d, forward) ==
  newMove(b, FALSE, FALSE, tile, add(tile, d, forward), pieceAt(b, tile),
          TRUE, TRUE, FALSE, FALSE, pieceAt(b, add(tile, d, 0))).move

\* the board an undo left: the capturing pawn on its origin, the target empty, the
\* captured pawn on its own square, beside the origin and behind the target
enPassantUndone(after, m) ==
  /\ ~after.thrown
  /\ pieceAt(after, m.startingSquare) = m.movePiece
  /\ pieceAt(after, m.targetSquare) = undefinedPiece
  /\ pieceAt(after, Sq(m.targetSquare.file, m.startingSquare.rank)) = m.capturePiece

\* C24: undo_last_move of an en passant capture puts the capturing pawn back on its
\* origin, empties the move's target square and restores the captured pawn on its
\* original square, beside the origin and behind the target, for both colours.  Stated
\* of the capture on top of the history, and of the capture of each colour where a pawn
\* stands beside an enemy pawn that has double_step.
C24_UndoEnPassant ==
  ~thrown =>
    /\ (op = "make_move" /\ Len(history) > 0 /\ history[Len(history)].isEnPassant) =>
         enPassantUndone(undoLastMove(board), history[Len(history)])
    /\ \A tile \in Squares : \A d \in {-1, 1} :
         /\ whiteEnPassantCase(board, tile, d) =>
              enPassantUndone(undoLastMove(makeMove(board, enPassantMove(board, tile, d, 1))),
                              enPassantMove(board, tile, d, 1))
         /\ blackEnPassantCase(board, tile, d) =>
              enPassantUndone(undoLastMove(makeMove(board, enPassantMove(board, tile, d, -1))),
                              enPassantMove(board, tile, d, -1))

\* C24 witness: a white en passant capture is on top of the history, the captured pawn is
\* off the board, and undo_last_move brings it back beside the origin of the capture
C24_Witness ==
  /\ op = "make_move" /\ ~thrown /\ Len(history) = 1
  /\ history[1].isEnPassant /\ history[1].capturePiece.kind = "Pawn"
  /\ pieceAt(board, Sq(history[1].targetSquare.file, history[1].startingSquare.rank))
       = undefinedPiece
  /\ enPassantUndone(undoLastMove(board), history[1])

\* the case of black, reached after a double step: a black pawn stands beside the white pawn that
\* has just advanced two squares, and its capture is applied and undone
blackEnPassantUndone ==
  /\ op = "make_move" /\ ~thrown /\ Len(history) = 1 /\ history[1].isDoubleStep
  /\ \E tile \in Squares : \E d \in {-1, 1} :
       /\ blackEnPassantCase(board, tile, d)
       /\ pieceAt(makeMove(board, enPassantMove(board, tile, d, -1)), add(tile, d, 0))
            = undefinedPiece
       /\ enPassantUndone(undoLastMove(makeMove(board, enPassantMove(board, tile, d, -1))),
                          enPassantMove(board, tile, d, -1))

\* the board an undo of castling left: the king on its origin tile, which is the tracked
\* king tile again, the rook on its corner, and the two squares they stood on empty
castleUndone(after, king, rook, tile, df) ==
  /\ ~after.thrown
  /\ pieceAt(after, tile) = king
  /\ kingTile(after, king.pieceColor) = tile
  /\ pieceAt(after, cornerOf(tile, df)) = rook
  /\ pieceAt(after, add(tile, df, 0)) = undefinedPiece
  /\ pieceAt(after, add(tile, sign(df), 0)) = undefinedPiece

\* the move on top of the history of b is the castling of a king from its home square
\* to df files aside, and a rook of its colour stands on the square the king passed over
castleOnTop(b, df) ==
  /\ Len(b.history) > 0
  /\ LET m == b.history[Len(b.history)]
     IN /\ m.isCastles
        /\ m.startingSquare = homeSquare(m.movePiece.pieceColor)
        /\ m.targetSquare = add(m.startingSquare, df, 0)
        /\ pieceAt(b, add(m.startingSquare, sign(df), 0)).kind = "Rook"
        /\ pieceAt(b, add(m.startingSquare, sign(df), 0)).pieceColor = m.movePiece.pieceColor

\* C25: undo_last_move of a castling move puts the king back on its origin square and
\* the rook back on its corner, leaves both squares they occupied after castling empty
\* and resets the king tile to the origin tile.  Stated of the castling on top of the
\* history, and of every castling move the generator yields for a king on its home
\* square with its rook in the corner.
C25_UndoCastle ==
  ~thrown =>
    /\ \A df \in {-2, 2} :
         (op = "make_move" /\ castleOnTop(board, df)) =>
           castleUndone(undoLastMove(board), history[Len(history)].movePiece,
                        pieceAt(board, add(history[Len(history)].startingSquare, sign(df), 0)),
                        history[Len(history)].startingSquare, df)
    /\ \A color \in Colors : \A tile \in kingSquares(board, color) :
         \A m \in pseudoLegal(board, tile) : \A df \in {-2, 2} :
           castleCase(board, tile, m, df) =>
             castleUndone(undoLastMove(makeMove(board, m)), pieceAt(board, tile),
                          pieceAt(board, cornerOf(tile, df)), tile, df)

\* C25 witness: white's queenside castling is applied, king on c1 and rook on d1, and
\* undo_last_move brings the king back to e1 and the rook back to a1
C25_Witness ==
  /\ op = "make_move" /\ ~thrown /\ Len(history) = 1
  /\ castleOnTop(board, -2)
  /\ pieceAt(board, Sq("c", 1)).kind = "King"
  /\ pieceAt(board, Sq("d", 1)).kind = "Rook"
  /\ pieceAt(undoLastMove(board), Sq("e", 1)).kind = "King"
  /\ pieceAt(undoLastMove(board), Sq("a", 1)).kind = "Rook"

\* C26: an en passant capture against a pawn is generated only on the ply immediately
\* following that pawn's two-square advance: every en passant move the generator of a
\* piece of the side to move yields captures the pawn whose double step is on top of
\* the history or, with nothing applied yet, the pawn the initial position names; once
\* any other move has been applied after the advance, none is yielded against it.
C26_EnPassantOnePly ==
  ~thrown =>
    \A tile \in selectable(board) : \A m \in pseudoLegal(board, tile) :
      m.isEnPassant =>
        IF Len(history) = 0 THEN m.capturePiece \in createChessBoard(fen).doubleStep
        ELSE /\ history[Len(history)].isDoubleStep
             /\ history[Len(history)].movePiece = m.capturePiece

\* the wing a castling move goes to: 1 for the side of the h-file, -1 for that of the a-file
wingOf(m) == sign(files[m.targetSquare.file] - files[m.startingSquare.file])

\* every square strictly between the tile and the corner of the wing on its rank is empty
betweenEmpty(b, tile, wing) ==
  \A f \in 1..(BoardSize - 2) :
    (IF wing > 0 THEN f > files[tile.file] ELSE f < files[tile.file]) =>
      pieceAt(b, chessify(f, tile.rank - 1)) = undefinedPiece

\* C27: a castling candidate for a wing is generated only if the king's flag for that
\* wing is set and every square strictly between the king and that wing's rook, which
\* stands in the corner of the king's rank, is empty.
C27_CastleOnlyIfClear ==
  ~thrown =>
    \A color \in Colors : \A tile \in kingSquares(board, color) :
      \A m \in pseudoLegal(board, tile) :
        m.isCastles =>
          /\ pieceAt(board, tile) \in
               (IF wingOf(m) > 0 THEN canCastleKing ELSE canCastleQueen)
          /\ betweenEmpty(board, tile, wingOf(m))

\* a piece of the colour attacks the square
squareAttacked(b, sq, color) ==
  \E from \in Squares : pieceAt(b, from).pieceColor = color /\ attacks(b, from, sq)

\* the king of tile is at home with the flag of the wing of df set and the squares the
\* generator probes on that wing empty
wingCase(b, tile, df) == IF df > 0 THEN kingSideCase(b, tile) ELSE queenSideCase(b, tile)

\* the castling move of the king of tile to df files aside is among the moves
\* legal_moves(tile, false, true, true) keeps
castleKept(b, tile, df) ==
  hasCastle(getLegalMoves(b, tile, FALSE, TRUE, TRUE).moves, tile, df)

\* r is what legal_moves(tile, false, true, true) left and returned: when the call did
\* not fail, the castling move is among its moves iff safe
filterAgrees(r, tile, df, safe) == ~r.b.thrown => (hasCastle(r.moves, tile, df) <=> safe)

\* C28: castling generation does not test attacks: with the flag set and the squares
\* between king and rook empty, possible_moves yields the castling candidate whether or
\* not the king's origin, transit or destination square is attacked; a legal_moves call
\* that returns has filtered it out exactly when the king is attacked in the position
\* after the castle.
C28_CastleIgnoresAttacks ==
  ~thrown =>
    \A color \in Colors : \A tile \in kingSquares(board, color) : \A df \in {-2, 2} :
      wingCase(board, tile, df) =>
        /\ hasCastle(possibleMoves(board, pieceAt(board, tile), tile, FALSE, TRUE).moves,
                     tile, df)
        /\ color = turn =>
             \A m \in pseudoLegal(board, tile) :
               (m.isCastles /\ m.targetSquare = add(tile, df, 0)) =>
                 filterAgrees(getLegalMoves(board, tile, FALSE, TRUE, TRUE), tile, df,
                              ~attacked(makeMove(board, m), color))

\* C28 witness: after a white rook move to the d-file the black king, at home with its
\* queenside flag and b8, c8, d8 empty, would pass over d8, which the rook attacks; the
\* generator yields its queenside castling and the filter keeps it
C28_Witness ==
  /\ op = "make_move" /\ ~thrown /\ Len(history) = 1 /\ turn = "black"
  /\ history[1].movePiece.kind = "Rook"
  /\ queenSideCase(board, Sq("e", 8))
  /\ squareAttacked(board, Sq("d", 8), "white")
  /\ hasCastle(possibleMoves(board, pieceAt(board, Sq("e", 8)), Sq("e", 8), FALSE, TRUE).moves,
               Sq("e", 8), -2)
  /\ castleKept(board, Sq("e", 8), -2)

\* both rights-cancellation flags of the move have the value
cancelsBoth(m, value) ==
  m.cancelKingsideCastles = value /\ m.cancelQueensideCastles = value

\* C29: a Move built with castle_calc = true has both cancels_kingside_rights and
\* cancels_queenside_rights set iff its moving piece is a King or a Rook, wherever the
\* rook stands and whatever the king's flags are; one built with castle_calc = false has
\* both false.  Stated of the moves every generator builds for the side to move, and of
\* the moves legal_moves returned with its default castle_calc = true.
C29_CancelFlags ==
  ~thrown =>
    /\ \A tile \in selectable(board) : \A kc \in BOOLEAN :
         \A m \in Range(possibleMoves(board, pieceAt(board, tile), tile, FALSE, kc).moves) :
           cancelsBoth(m, kc /\ m.movePiece.kind \in {"King", "Rook"})
    /\ op \in {"legal_moves", "all_legal_moves"} =>
         \A m \in Range(moves) : cancelsBoth(m, m.movePiece.kind \in {"King", "Rook"})

\* C29 witness: the generator of a rook that stands on d4, its king without any castling
\* flag, has returned moves that all carry both flags, and with castle_calc = false it
\* builds the same moves without them
C29_Witness ==
  /\ op = "possible_moves" /\ ~thrown /\ selected = Sq("d", 4)
  /\ pieceAt(board, selected).kind = "Rook"
  /\ canCastleKing = {} /\ canCastleQueen = {}
  /\ Len(moves) > 0
  /\ \A m \in Range(moves) : cancelsBoth(m, TRUE)
  /\ \A m \in Range(possibleMoves(board, pieceAt(board, selected), selected, FALSE, FALSE).moves) :
       cancelsBoth(m, FALSE)

traced(b) ==
  [tiles |-> b.tiles, turn |-> b.turn, whiteKingTile |-> b.whiteKingTile,
   blackKingTile |-> b.blackKingTile, history |-> b.history, doubleStep |-> b.doubleStep,
   canCastleKing |-> b.canCastleKing, canCastleQueen |-> b.canCastleQueen,
   thrown |-> b.thrown, peak |-> Len(b.history)]

\* the number of trial moves applied at once, at most, during the call that left after
trialDepth(after, b) == after.peak - Len(b.history)

\* C31: simulation is bounded: during any top-level legal_moves, all_legal_moves or
\* classify call the number of simultaneously applied trial moves, the history length
\* above its value at call entry, never exceeds 2, and the call terminates (its result
\* is computed).  Stated of all_legal_moves() on a position as it is created or as a
\* move has left it, of legal_moves of every tile of the side to move on the board as
\* it is, and of classify of every move the caller holds.
C31_TrialDepth ==
  ~thrown =>
    /\ op \in {"create", "make_move"} =>
         trialDepth(getAllLegalMoves(traced(board), TRUE, TRUE, TRUE).b, board)
           <= 2
    /\ \A tile \in selectable(board) :
         trialDepth(getLegalMoves(traced(board), tile, TRUE, TRUE, TRUE).b, board)
           <= 2
    /\ \A m \in Range(moves) :
         trialDepth(calculateCheckType(traced(board), m).b, board) <= 2

\* C31 witness: legal_moves has returned the moves of a tile, and during that call, made
\* again on the board it left, two trial moves are applied at once: the move being
\* classified and a reply under the legality filter
C31_Witness ==
  /\ op = "legal_moves" /\ ~thrown /\ Len(moves) > 0
  /\ trialDepth(getLegalMoves(traced(board), selected, TRUE, TRUE, TRUE).b, board)
       = 2

\* the squares pawns stand on
pawnTiles(b) == {sq \in Squares : pieceAt(b, sq).kind = "Pawn"}

\* the square is on the board and no piece stands on it
emptyAt(b, sq) == isValid(sq) /\ pieceAt(b, sq) = undefinedPiece

\* the square n steps ahead of the pawn on the tile, in the direction of its colour
ahead(b, tile, n) == add(tile, 0, n * pawnForward(pieceAt(b, tile).pieceColor))

\* the generated moves of the pawn on the tile that stay on its file
pushes(b, tile) == {m \in pseudoLegal(b, tile) : m.targetSquare.file = tile.file}

\* the generated pushes of the pawn on the tile onto the square n steps ahead
pushesTo(b, tile, n) == {m \in pushes(b, tile) : m.targetSquare = ahead(b, tile, n)}

pawnPushRule(b, tile) ==
  /\ pushesTo(b, tile, 1) # {} <=> emptyAt(b, ahead(b, tile, 1))
  /\ pushesTo(b, tile, 2) # {} <=>
       /\ tile.rank = (IF pieceAt(b, tile).pieceColor = "white" THEN 2 ELSE 7)
       /\ emptyAt(b, ahead(b, tile, 1))
       /\ emptyAt(b, ahead(b, tile, 2))
  /\ pushes(b, tile) = pushesTo(b, tile, 1) \cup pushesTo(b, tile, 2)
  /\ \A m \in pseudoLegal(b, tile) :
       m.isDoubleStep <=> abs(m.targetSquare.rank - tile.rank) > 1
  /\ \A m \in pushes(b, tile) : ~m.isCapture /\ m.capturePiece = undefinedPiece

\* C32: of every pawn on the board, the generator yields a single forward push iff the
\* square ahead is empty, a double push iff the pawn stands on its starting rank (2 for
\* white, 7 for black) and the square ahead and the square two ahead are both empty, and
\* no other move along the file; a move of the pawn is flagged isDoubleStep iff its rank
\* delta exceeds 1; no push captures.
C32_PawnPushes == ~thrown => \A tile \in pawnTiles(board) : pawnPushRule(board, tile)

\* C32 witness: the generator has returned the moves of a pawn on its starting rank
\* whose square ahead is empty and whose square two ahead is occupied: the single push
\* and nothing else
C32_Witness ==
  /\ op = "possible_moves" /\ ~thrown
  /\ pieceAt(board, selected).kind = "Pawn"
  /\ selected.rank = pawnStartRank(pieceAt(board, selected).pieceColor)
  /\ emptyAt(board, ahead(board, selected, 1))
  /\ isValid(ahead(board, selected, 2)) /\ ~emptyAt(board, ahead(board, selected, 2))
  /\ Len(moves) = 1
  /\ moves[1].targetSquare = ahead(board, selected, 1)
  /\ ~moves[1].isDoubleStep

\* the squares the sliding pieces stand on
sliderTiles(b) == {sq \in Squares : pieceAt(b, sq).kind \in {"Bishop", "Rook", "Queen"}}

\* the squares along the directions of the piece on the tile up to and including the
\* first occupied one, those an own piece stands on left out
rayTargets(b, tile) ==
  {to \in Squares :
     attacks(b, tile, to) /\ pieceAt(b, to).pieceColor # pieceAt(b, tile).pieceColor}

\* the generated moves of the piece on the tile, in the order of the generator
generated(b, tile) == possibleMoves(b, pieceAt(b, tile), tile, FALSE, TRUE).moves

\* every generated move is a plain move or a capture of the piece on its target
captureIffEnemy(b, ms) ==
  \A i \in 1..Len(ms) :
    /\ ms[i].isCapture <=> pieceAt(b, ms[i].targetSquare) # undefinedPiece
    /\ ms[i].capturePiece = pieceAt(b, ms[i].targetSquare)
    /\ ~ms[i].isEnPassant /\ ~ms[i].isCastles /\ ~ms[i].isDoubleStep

\* no two generated moves have one target
oncePerTarget(ms) ==
  \A i, j \in 1..Len(ms) : ms[i].targetSquare = ms[j].targetSquare => i = j

rayRule(b, tile) ==
  /\ {m.targetSquare : m \in Range(generated(b, tile))} = rayTargets(b, tile)
  /\ captureIffEnemy(b, generated(b, tile))
  /\ oncePerTarget(generated(b, tile))

\* C33: of every bishop, rook and queen on the board, the generator yields, along each
\* direction of the piece, exactly the empty squares up to the first occupied square
\* and that square, as a capture of its occupant, iff the occupant is of the other
\* colour: nothing beyond it and no move onto a piece of the own colour.
C33_Rays == ~thrown => \A tile \in sliderTiles(board) : rayRule(board, tile)

\* C33 witness: the generator has returned the moves of a sliding piece, one of them the
\* capture of a knight with a square of the board behind it on the same line, and no
\* move goes to that square
C33_Witness ==
  /\ op = "possible_moves" /\ ~thrown
  /\ selected \in sliderTiles(board)
  /\ \E i \in 1..Len(moves) :
       /\ moves[i].isCapture /\ moves[i].capturePiece.kind = "Knight"
       /\ \E beyond \in {add(moves[i].targetSquare,
                             sign(simplify(moves[i].targetSquare).file - simplify(selected).file),
                             sign(simplify(moves[i].targetSquare).rank - simplify(selected).rank))} :
            /\ isValid(beyond)
            /\ \A j \in 1..Len(moves) : moves[j].targetSquare # beyond

\* the squares the knights and the kings stand on
jumperTiles(b) == {sq \in Squares : pieceAt(b, sq).kind \in {"Knight", "King"}}

\* the squares one offset of the piece away from the tile, on the board, those an own
\* piece stands on left out
offsetTargets(b, tile) ==
  {to \in Squares :
     attacks(b, tile, to) /\ pieceAt(b, to).pieceColor # pieceAt(b, tile).pieceColor}

\* the generated moves of the piece on the tile that are no castling moves
plainMoves(b, tile) == SelectSeq(generated(b, tile), LAMBDA m : ~m.isCastles)

offsetRule(b, tile) ==
  /\ {m.targetSquare : m \in Range(plainMoves(b, tile))} = offsetTargets(b, tile)
  /\ captureIffEnemy(b, plainMoves(b, tile))
  /\ oncePerTarget(plainMoves(b, tile))

\* C34: of every knight and king on the board, the generator yields, castling moves
\* apart, exactly one move per offset of the piece (8 knight jumps, 8 king neighbours)
\* whose target is on the board and holds no piece of the own colour; the move is a
\* capture carrying the occupant iff the target holds a piece of the other colour.
C34_Offsets == ~thrown => \A tile \in jumperTiles(board) : offsetRule(board, tile)

\* the rank beyond which a pawn of the colour has no square to advance to
lastRank(color) == IF color = "white" THEN BoardSize ELSE 1

\* the squares on which a pawn stands on the last rank of its colour
arrivedPawns(b) ==
  {sq \in pawnTiles(b) : sq.rank = lastRank(pieceAt(b, sq).pieceColor)}

\* a generated move names the piece on its tile as the mover, and made on the board it
\* leaves that very piece, kind included, on its target
keepsKind(b, tile, m) ==
  /\ m.movePiece = pieceAt(b, tile)
  /\ pieceAt(makeMove(b, m), m.targetSquare) = pieceAt(b, tile)

\* C35: promotion is never generated: every generated move of every piece, made on the
\* board, leaves the moving piece with its kind on the target square, and a pawn on the
\* last rank of its colour is a pawn for which the generator yields no move.
C35_NoPromotion ==
  ~thrown =>
    /\ \A tile \in {sq \in Squares : isOccupied(board, sq)} :
         \A m \in pseudoLegal(board, tile) : keepsKind(board, tile, m)
    /\ \A tile \in arrivedPawns(board) : Len(generated(board, tile)) = 0

\* C35 witness: a white pawn has been moved onto rank 8: it stands there as a pawn, and
\* its generator yields no move
C35_Witness ==
  /\ op = "make_move" /\ ~thrown /\ Len(applied) = 1
  /\ applied[1].movePiece = Pc("Pawn", "white", 3)
  /\ applied[1].targetSquare.rank = BoardSize
  /\ pieceAt(board, applied[1].targetSquare) = Pc("Pawn", "white", 3)
  /\ applied[1].targetSquare \in arrivedPawns(board)
  /\ Len(generated(board, applied[1].targetSquare)) = 0

\* the wing a castling move goes to, by the direction the king travels
castleWing(m) ==
  IF files[m.targetSquare.file] > files[m.startingSquare.file] THEN "king" ELSE "queen"

\* C36: of every castling move the king generator has returned, the string form is
\* "O-O" when the king goes to the kingside and "O-O-O" when it goes to the queenside.
C36_CastleString ==
  (op = "possible_moves" /\ ~thrown) =>
    \A m \in Range(moves) :
      m.isCastles =>
        toString(m) = (IF castleWing(m) = "king" THEN "O-O" ELSE "O-O-O")

\* the corner of the wing a castling move goes to, on the rank of the king
wingCorner(m) == Sq(IF castleWing(m) = "king" THEN "h" ELSE "a", m.startingSquare.rank)

\* the square next to the king once it has castled, on the side it came from
besideKing(m) == add(m.targetSquare, IF castleWing(m) = "king" THEN -1 ELSE 1, 0)

\* a rook of the colour stands on the square
ownRook(b, sq, color) ==
  isValid(sq) /\ pieceAt(b, sq).kind = "Rook" /\ pieceAt(b, sq).pieceColor = color

\* the corner of the wing holds a rook of the king's colour, and the move made on the
\* board leaves a rook of that colour next to the king
castlesWithRook(b, m) ==
  /\ ownRook(b, wingCorner(m), m.movePiece.pieceColor)
  /\ ~makeMove(b, m).thrown
  /\ ownRook(makeMove(b, m), besideKing(m), m.movePiece.pieceColor)

\* C37: whenever the generator of a king yields a castling move, the corner square of
\* that wing holds a rook of the king's colour, and after the move is applied the square
\* next to the king holds an own rook.  Stated of the king of the side to move, on the
\* boards that arise from the position with both kings at home, all four rooks in their
\* corners and all four castling rights.
C37_CastleHasRook ==
  (~thrown /\ fen \in {castlePosition("w"), castlePosition("b")}) =>
    \A tile \in kingSquares(board, board.turn) :
      \A m \in pseudoLegal(board, tile) : m.isCastles => castlesWithRook(board, m)

\* what legal_moves of the tile returns on the board legal_moves of another tile has
\* left, or on the board as it is when the other tile is the tile itself
askedAfter(b, tile, otherTile) ==
  IF otherTile = tile
  THEN getLegalMoves(b, tile, TRUE, TRUE, TRUE)
  ELSE getLegalMoves(getLegalMoves(b, otherTile, TRUE, TRUE, TRUE).b, tile, TRUE, TRUE, TRUE)

\* C38: legal_moves is deterministic and idempotent: once legal_moves has returned the
\* moves of a tile, and no move is made or undone, legal_moves of the same tile returns
\* the same set of moves (squares, flags and check type), whether it is called at once
\* or after legal_moves of any other tile of the side to move.
C38_Deterministic ==
  (op = "legal_moves" /\ ~thrown) =>
    \A otherTile \in selectable(board) :
      /\ ~askedAfter(board, selected, otherTile).b.thrown
      /\ Range(askedAfter(board, selected, otherTile).moves) = Range(moves)

\* the pieces that stand on the board
piecesOf(b) == {pieceAt(b, sq) : sq \in {s \in Squares : isOccupied(b, s)}}

\* the square a capture takes its piece from: the target, or for en passant the square
\* behind it, on the rank the capturing pawn started from
captureSquare(m) ==
  IF m.isEnPassant THEN Sq(m.targetSquare.file, m.startingSquare.rank) ELSE m.targetSquare

\* the pieces a move takes off the board: for a capture the piece of the other colour on
\* its capture square, else none
taken(b, m) ==
  IF m.isCapture
  THEN {p \in {pieceAt(b, captureSquare(m))} : p.pieceColor = other(m.movePiece.pieceColor)}
  ELSE {}

\* the pieces a move may take to another tile: the mover, and for castling the rooks of
\* its colour
relocated(b, m) ==
  {m.movePiece}
  \cup (IF m.isCastles
        THEN {p \in piecesOf(b) : p.kind = "Rook" /\ p.pieceColor = m.movePiece.pieceColor}
        ELSE {})

removesOnlyCaptured(b, m) ==
  /\ m.isCapture => Cardinality(taken(b, m)) = 1
  /\ ~makeMove(b, m).thrown
  /\ piecesOf(makeMove(b, m)) = piecesOf(b) \ taken(b, m)
  /\ Cardinality({sq \in Squares : isOccupied(makeMove(b, m), sq)})
       = Cardinality(piecesOf(b)) - Cardinality(taken(b, m))
  /\ \A sq \in Squares :
       (isOccupied(b, sq) /\ pieceAt(b, sq) \notin taken(b, m) \cup relocated(b, m))
         => pieceAt(makeMove(b, m), sq) = pieceAt(b, sq)

\* C39: make_move of a generated move takes exactly one piece off the board when the
\* move is a capture, the piece of the other colour on the target square or, for en
\* passant, on the square behind it, and none otherwise; every piece other than the
\* mover, the captured piece and a castling rook stays on its tile.  Stated of every move
\* the generator yields for a piece of the side to move.
C39_RemovesOnlyCaptured ==
  ~thrown =>
    \A tile \in selectable(board) :
      \A m \in pseudoLegal(board, tile) : removesOnlyCaptured(board, m)

====
